---------------------------- MODULE Spec2Model ----------------------------
(***************************************************************************)
(* Model of the decision pipeline of llmpoker-assistant:                   *)
(*   vision/confidence_validator.py  ConfidenceValidator                   *)
(*   state/state_manager.py          GameStateManager                      *)
(*   llm/orchestrator.py             LLMOrchestrator and its providers     *)
(*   main.py                         LLMPokerAssistant._process_frame      *)
(***************************************************************************)
EXTENDS Integers, Sequences, FiniteSets, TLC

(***************************************************************************)
(* Python floats.  The validator averages and multiplies confidences with  *)
(* IEEE-754 binary64 arithmetic, and accepts by comparing the rounded      *)
(* result with the threshold, so the rounding is modelled: a float is      *)
(* [m, e] with value m * 2^e, m a 53-bit natural kept as little-endian     *)
(* limbs of 15 bits (<<>> is zero); a negative float carries the field     *)
(* neg.  Only finite normal values occur.                                  *)
(***************************************************************************)
LimbBits == 15
LimbBase == 32768
MantBits == 53

Limb(a, i) == IF i <= Len(a) THEN a[i] ELSE 0

RECURSIVE BNorm(_)
BNorm(a) ==
    IF a = <<>> THEN <<>>
    ELSE IF a[Len(a)] = 0 THEN BNorm(SubSeq(a, 1, Len(a) - 1)) ELSE a

RECURSIVE IntToB(_)
IntToB(n) == IF n = 0 THEN <<>> ELSE <<n % LimbBase>> \o IntToB(n \div LimbBase)

RECURSIVE BAddC(_, _, _, _)
BAddC(a, b, i, c) ==
    IF i > Len(a) /\ i > Len(b)
    THEN (IF c = 0 THEN <<>> ELSE <<c>>)
    ELSE LET s == Limb(a, i) + Limb(b, i) + c
         IN  <<s % LimbBase>> \o BAddC(a, b, i + 1, s \div LimbBase)

BAdd(a, b) == BAddC(a, b, 1, 0)

RECURSIVE BMulSmallC(_, _, _, _)
BMulSmallC(a, s, i, c) ==
    IF i > Len(a)
    THEN (IF c = 0 THEN <<>> ELSE <<c>>)
    ELSE LET p == a[i] * s + c
         IN  <<p % LimbBase>> \o BMulSmallC(a, s, i + 1, p \div LimbBase)

BMulSmall(a, s) == IF s = 0 THEN <<>> ELSE BMulSmallC(a, s, 1, 0)

BShlLimbs(a, n) == IF a = <<>> THEN <<>> ELSE [i \in 1..n |-> 0] \o a

RECURSIVE BMulAcc(_, _, _)
BMulAcc(a, b, i) ==
    IF i > Len(b) THEN <<>>
    ELSE BAdd(BShlLimbs(BMulSmall(a, b[i]), i - 1), BMulAcc(a, b, i + 1))

BMul(a, b) == BMulAcc(a, b, 1)

RECURSIVE BDivSmallR(_, _, _, _)
BDivSmallR(a, d, i, r) ==
    IF i = 0 THEN <<<<>>, r>>
    ELSE LET cur  == r * LimbBase + a[i]
             rest == BDivSmallR(a, d, i - 1, cur % d)
         IN  <<rest[1] \o <<cur \div d>>, rest[2]>>

\* <<quotient, remainder>> of a bignum by an integer 0 < d < LimbBase
BDivSmall(a, d) ==
    LET x == BDivSmallR(a, d, Len(a), 0) IN <<BNorm(x[1]), x[2]>>

BShl(a, k) == BShlLimbs(BMulSmall(a, 2 ^ (k % LimbBits)), k \div LimbBits)

BShr(a, k) ==
    LET q == k \div LimbBits
    IN  IF q >= Len(a) THEN <<>>
        ELSE BDivSmall(SubSeq(a, q + 1, Len(a)), 2 ^ (k % LimbBits))[1]

\* a mod 2^k
BLow(a, k) ==
    LET q == k \div LimbBits
    IN  IF q >= Len(a) THEN a
        ELSE BNorm(SubSeq(a, 1, q) \o <<a[q + 1] % (2 ^ (k % LimbBits))>>)

RECURSIVE BitLenSmall(_)
BitLenSmall(n) == IF n = 0 THEN 0 ELSE 1 + BitLenSmall(n \div 2)

BitLen(a) ==
    IF a = <<>> THEN 0 ELSE (Len(a) - 1) * LimbBits + BitLenSmall(a[Len(a)])

RECURSIVE BCmpFrom(_, _, _)
BCmpFrom(a, b, i) ==
    IF i = 0 THEN 0
    ELSE IF a[i] > b[i] THEN 1
    ELSE IF a[i] < b[i] THEN -1
    ELSE BCmpFrom(a, b, i - 1)

\* -1, 0, 1 as a < b, a = b, a > b (normalised bignums)
BCmp(a, b) ==
    IF Len(a) > Len(b) THEN 1
    ELSE IF Len(a) < Len(b) THEN -1
    ELSE BCmpFrom(a, b, Len(a))

RECURSIVE BSubC(_, _, _, _)
BSubC(a, b, i, c) ==
    IF i > Len(a) THEN <<>>
    ELSE LET d == Limb(a, i) - Limb(b, i) - c
         IN  <<d % LimbBase>> \o BSubC(a, b, i + 1, IF d < 0 THEN 1 ELSE 0)

\* a - b for a >= b
BSub(a, b) == BNorm(BSubC(a, b, 1, 0))

FZero == [m |-> <<>>, e |-> 0]

IsNeg(x) == "neg" \in DOMAIN x
\* the float of magnitude x with the sign given; zero carries none
Signed(neg, x) ==
    IF neg /\ x.m # <<>> THEN [m |-> x.m, e |-> x.e, neg |-> TRUE]
    ELSE [m |-> x.m, e |-> x.e]

\* the rounded quotient q2 with its exponent, renormalised if the round-up
\* carried into a 54th bit
FRenorm(q2, e) ==
    IF BitLen(q2) > MantBits THEN [m |-> BShr(q2, 1), e |-> e + 1]
    ELSE [m |-> q2, e |-> e]

\* q is M without its sh low bits, c compares those bits with one half
FRoundUp(q, c, sticky) == c = 1 \/ (c = 0 /\ (sticky \/ q[1] % 2 = 1))

FRoundCut(M, e, sticky, sh) ==
    FRenorm(IF FRoundUp(BShr(M, sh),
                        BCmp(BLow(M, sh), BShl(<<1>>, sh - 1)), sticky)
            THEN BAdd(BShr(M, sh), <<1>>) ELSE BShr(M, sh),
            e + sh)

FRoundLen(M, e, sticky, L) ==
    IF L = 0 THEN FZero
    ELSE IF L <= MantBits
    THEN [m |-> BShl(M, MantBits - L), e |-> e - (MantBits - L)]
    ELSE FRoundCut(M, e, sticky, L - MantBits)

\* round-to-nearest, ties-to-even of (M + sticky) * 2^e to 53 bits; sticky
\* says a non-zero part below M's last bit was cut off by the caller
FRound(M, e, sticky) == FRoundLen(M, e, sticky, BitLen(M))

FromInt(n) ==
    IF n < 0 THEN Signed(TRUE, FRound(IntToB(-n), 0, FALSE))
    ELSE FRound(IntToB(n), 0, FALSE)

FMin(a, b) == IF a < b THEN a ELSE b

\* the sum of the aligned mantissas a of x and b of y, both at exponent e
FAddAligned(x, y, a, b, e) ==
    IF IsNeg(x) = IsNeg(y)
    THEN Signed(IsNeg(x), FRound(BAdd(a, b), e, FALSE))
    ELSE IF BCmp(a, b) >= 0
    THEN Signed(IsNeg(x), FRound(BSub(a, b), e, FALSE))
    ELSE Signed(IsNeg(y), FRound(BSub(b, a), e, FALSE))

FAddAt(x, y, e) == FAddAligned(x, y, BShl(x.m, x.e - e), BShl(y.m, y.e - e), e)

FAdd(x, y) ==
    IF x.m = <<>> THEN y
    ELSE IF y.m = <<>> THEN x
    ELSE FAddAt(x, y, FMin(x.e, y.e))

FMul(x, y) ==
    IF x.m = <<>> \/ y.m = <<>> THEN FZero
    ELSE Signed(IsNeg(x) # IsNeg(y), FRound(BMul(x.m, y.m), x.e + y.e, FALSE))

\* x / n for an integer 0 < n < LimbBase (len(scores), 3, 10, 100)
FDivInt(x, n) ==
    IF x.m = <<>> THEN FZero
    ELSE LET d == BDivSmall(BShl(x.m, 4 * LimbBits), n)
         IN  Signed(IsNeg(x), FRound(d[1], x.e - 4 * LimbBits, d[2] # 0))

\* the largest q with q * D <= N, found bit by bit from bit b down
RECURSIVE BQuot(_, _, _, _)
BQuot(N, D, q, b) ==
    IF b < 0 THEN q
    ELSE IF BCmp(BNorm(BMul(BAdd(q, BShl(<<1>>, b)), D)), N) <= 0
    THEN BQuot(N, D, BAdd(q, BShl(<<1>>, b)), b - 1)
    ELSE BQuot(N, D, q, b - 1)

\* x / y for y > 0: the quotient of the mantissas to 55 or 56 bits, the
\* rest of it as the sticky bit, rounded to nearest
FDivRounded(x, y, N, Q) ==
    FRound(Q, x.e - y.e - (MantBits + 2), BCmp(BNorm(BMul(Q, y.m)), N) # 0)
FDivShifted(x, y, N) == FDivRounded(x, y, N, BQuot(N, y.m, <<>>, MantBits + 2))
FDiv(x, y) ==
    IF x.m = <<>> THEN FZero ELSE FDivShifted(x, y, BShl(x.m, MantBits + 2))

\* -1, 0, 1 for the magnitudes
FCmpAbs(x, y) ==
    IF x.m = <<>> THEN (IF y.m = <<>> THEN 0 ELSE -1)
    ELSE IF y.m = <<>> THEN 1
    ELSE LET e == FMin(x.e, y.e)
         IN  BCmp(BShl(x.m, x.e - e), BShl(y.m, y.e - e))

\* -1, 0, 1
FCmp(x, y) ==
    IF IsNeg(x) /\ ~IsNeg(y) THEN -1
    ELSE IF ~IsNeg(x) /\ IsNeg(y) THEN 1
    ELSE IF IsNeg(x) THEN FCmpAbs(y, x)
    ELSE FCmpAbs(x, y)

FGe(x, y) == FCmp(x, y) >= 0

\* the float a decimal literal n/100 denotes (0.7 is Dec(70))
Dec(n) == FDivInt(FromInt(n), 100)

\* the literals 1.0, 0.5 and 0.3 of the consistency checks
One == FromInt(1)
Half == Dec(50)
Penalty == Dec(30)


(***************************************************************************)
(* Observations (the vision_data / game_state dicts).  confidence is the   *)
(* mapping's values in insertion order, each a float ("num", written in    *)
(* hundredths) or a non-numeric value ("str"); has_conf is FALSE when the  *)
(* dict has no "confidence" entry.  arrival is the logical creation        *)
(* timestamp of the object (its position in the stream), which no code     *)
(* reads.                                                                  *)
(***************************************************************************)
VARIABLES
    state_buffer,    \* ConfidenceValidator.state_buffer
    threshold,       \* ConfidenceValidator.threshold
    current_state,   \* GameStateManager.current_state (NoState is None)
    hand_number,     \* GameStateManager.hand_number
    session_id,      \* GameStateManager.session_id (n-th identifier drawn)
    calls,           \* number of validate calls made so far
    since_reset,     \* number of validate calls since the last reset()
    vout             \* what the last validator / state-manager call returned

valVars == <<state_buffer, threshold, current_state, hand_number, session_id,
             calls, since_reset, vout>>

MaxCalls == 5        \* validate calls explored per behaviour
MaxCycles == 3       \* loop iterations that reach the validator, per behaviour
MaxSessions == 2     \* session identifiers drawn per behaviour

buffer_size == 3

Num(v) == [k |-> "num", v |-> Dec(v)]
NonNumeric == [k |-> "str", v |-> FZero]

AK == <<"Ah", "Kd">>
Flop == <<"Qh", "Js", "Tc">>
Turn == Flop \o <<"9d">>

MkObs(h, b, p, hc, c) ==
    [hole_cards |-> h, board |-> b, pot |-> p, your_stack |-> 1000,
     position |-> "BTN", has_conf |-> hc, confidence |-> c, arrival |-> 0]

KK == <<"Kh", "Ks">>

ObsHigh == MkObs(AK, <<>>, 50, TRUE, <<Num(90), Num(90), Num(85), Num(90)>>)
ObsEdge == MkObs(KK, <<>>, 50, TRUE, <<Num(70), Num(70), Num(70)>>)
ObsFlop == MkObs(AK, Flop, 150, TRUE, <<Num(90), Num(90), Num(90), Num(90)>>)
ObsLow == MkObs(AK, <<>>, 50, TRUE, <<Num(50), Num(40), Num(30), Num(40)>>)
ObsMixed == MkObs(AK, Flop, 150, TRUE, <<Num(90), NonNumeric>>)
ObsNonNumeric == MkObs(AK, <<>>, 50, TRUE, <<NonNumeric>>)
ObsEmpty == MkObs(<<>>, <<>>, 0, TRUE, <<>>)
ObsAbsent == MkObs(<<>>, <<>>, 0, FALSE, <<>>)
ObsNoCards == MkObs(<<>>, <<>>, 0, TRUE, <<Num(90)>>)
ObsPotDrop == MkObs(AK, Flop, 60, TRUE, <<Num(90), Num(90), Num(90), Num(90)>>)
ObsKings == MkObs(KK, <<>>, 50, TRUE, <<Num(100)>>)
ObsKingsMixed == MkObs(KK, <<>>, 50, TRUE, <<Num(90), NonNumeric>>)

\* observations fed to the validator, to the state manager, to the loop
ValidatorObservations ==
    {ObsHigh, ObsEdge, ObsNonNumeric, ObsEmpty, ObsAbsent, ObsNoCards}
ManagerObservations ==
    {ObsHigh, ObsEdge, ObsFlop, ObsLow, ObsPotDrop, ObsKings}
CycleObservations == {ObsFlop, ObsLow, ObsMixed}
BoundaryObservations == {ObsHigh, ObsFlop, ObsKings, ObsKingsMixed}

\* FastVLMInference._empty_game_state: what extract_game_state returns when
\* the model call or the parsing of its answer raises
_empty_game_state ==
    [MkObs(<<>>, <<>>, 0, TRUE, <<Num(0), Num(0), Num(0), Num(0)>>)
        EXCEPT !.your_stack = 0, !.position = "UNKNOWN"]

\* what self.vision.extract_game_state(frame) hands to the loop
VisionOutputs == CycleObservations \cup {_empty_game_state}

Thresholds == {1, 70}
DefaultThreshold == 70

Range(s) == {s[i] : i \in 1..Len(s)}

\* the numeric values of a confidence mapping, in order
RECURSIVE Scores(_)
Scores(c) ==
    IF c = <<>> THEN <<>>
    ELSE (IF c[1].k = "num" THEN <<c[1].v>> ELSE <<>>) \o Scores(Tail(c))

\* Python's sum(): left to right, starting from 0
RECURSIVE FSum(_)
FSum(xs) ==
    IF xs = <<>> THEN FZero
    ELSE FAdd(FSum(SubSeq(xs, 1, Len(xs) - 1)), xs[Len(xs)])

\* a faulty variant: a neutral 0.5 when no field carries a number
_aggregate_confidence_neutral(state) ==
    LET confidences == IF state.has_conf THEN state.confidence ELSE <<>>
        scores == Scores(confidences)
    IN  IF scores = <<>> THEN Half
        ELSE FDivInt(FSum(scores), Len(scores))

\* ConfidenceValidator._aggregate_confidence
_aggregate_confidence(state) ==
    LET confidences == IF state.has_conf THEN state.confidence ELSE <<>>
        scores == Scores(confidences)
    IN  IF confidences = <<>> THEN FZero
        ELSE IF scores = <<>> THEN FZero
        ELSE FDivInt(FSum(scores), Len(scores))

\* a faulty variant: the cards are compared as lists, in order
_check_hole_cards_consistency_ordered(current, previous) ==
    IF current.hole_cards = <<>> \/ previous.hole_cards = <<>> THEN Half
    ELSE IF current.hole_cards # previous.hole_cards THEN Penalty
    ELSE One

\* ConfidenceValidator._check_hole_cards_consistency
_check_hole_cards_consistency(current, previous) ==
    LET current_cards  == Range(current.hole_cards)
        previous_cards == Range(previous.hole_cards)
    IN  IF current_cards = {} \/ previous_cards = {} THEN Half
        ELSE IF current_cards # previous_cards THEN Penalty
        ELSE One

\* a faulty variant: a board that grew is not compared card by card
_check_board_consistency_by_length(current, previous) ==
    LET current_board  == current.board
        previous_board == previous.board
    IN  IF current_board = <<>> /\ previous_board = <<>> THEN One
        ELSE IF Len(current_board) > Len(previous_board) THEN One
        ELSE IF Len(current_board) = Len(previous_board)
        THEN (IF current_board = previous_board THEN One ELSE Penalty)
        ELSE Half

\* ConfidenceValidator._check_board_consistency
_check_board_consistency(current, previous) ==
    LET current_board  == current.board
        previous_board == previous.board
    IN  IF current_board = <<>> /\ previous_board = <<>> THEN One
        ELSE IF Len(current_board) > Len(previous_board)
        THEN (IF \E i \in 1..Len(previous_board) :
                     current_board[i] # previous_board[i]
              THEN Penalty ELSE One)
        ELSE IF Len(current_board) = Len(previous_board)
        THEN (IF current_board = previous_board THEN One ELSE Penalty)
        ELSE Half

_check_pot_consistency(current, previous) ==
    LET current_pot  == current.pot
        previous_pot == previous.pot
    IN  IF current_pot = 0 /\ previous_pot = 0 THEN One
        ELSE IF current_pot > previous_pot THEN One
        ELSE IF current_pot = previous_pot THEN One
        ELSE Half

_check_consistency(buf) ==
    IF Len(buf) < 2 THEN One
    ELSE LET current  == buf[Len(buf)]
             previous == buf[Len(buf) - 1]
             consistency_scores ==
                 << _check_hole_cards_consistency(current, previous),
                    _check_board_consistency(current, previous),
                    _check_pot_consistency(current, previous) >>
         IN  FDivInt(FSum(consistency_scores), Len(consistency_scores))

\* a faulty variant: a full window refuses the newcomer
BufferAppend_newest(buf, game_state) ==
    LET b == Append(buf, game_state)
    IN  IF Len(b) > buffer_size THEN SubSeq(b, 1, buffer_size) ELSE b

\* state_buffer.append(game_state); pop(0) when longer than buffer_size
BufferAppend(buf, game_state) ==
    LET b == Append(buf, game_state)
    IN  IF Len(b) > buffer_size THEN Tail(b) ELSE b

\* is_confident = final_confidence >= self.threshold
IsConfident(final_confidence, thr) == FGe(final_confidence, thr)

\* what validate hands back, with the buffer it leaves
Verdict(b, thr, aggregate_confidence, final_confidence) ==
    [buffer       |-> b,
     is_confident |-> IsConfident(final_confidence, thr),
     confidence   |-> final_confidence,
     aggregate    |-> aggregate_confidence]

\* `if len(self.state_buffer) >= 2:` of validate
FinalConfidence(b, aggregate_confidence) ==
    IF Len(b) >= 2
    THEN FMul(aggregate_confidence, _check_consistency(b))
    ELSE aggregate_confidence

Judge(b, thr, aggregate_confidence) ==
    Verdict(b, thr, aggregate_confidence,
            FinalConfidence(b, aggregate_confidence))

\* ConfidenceValidator.validate: the new buffer and the returned pair
validate(buf, thr, game_state) ==
    Judge(BufferAppend(buf, game_state), thr,
          _aggregate_confidence(game_state))

(***************************************************************************)
(* GameStateManager.  current_state is <<>> for None, else <<GameState>>.  *)
(***************************************************************************)
Positions == {"BTN", "CO", "MP", "UTG", "SB", "BB", "UNKNOWN"}

\* GameState(...) of data_models.py: the pydantic validation succeeds
GameStateValid(vision_data) ==
    /\ vision_data.position \in Positions
    /\ \A i \in 1..Len(vision_data.confidence) :
           vision_data.confidence[i].k = "num"

GameState(vision_data) ==
    [hole_cards |-> vision_data.hole_cards, board |-> vision_data.board,
     pot |-> vision_data.pot, your_stack |-> vision_data.your_stack,
     position |-> vision_data.position]

\* a faulty variant: the pot rule left out
_is_new_hand_without_pot(cur, new_state) ==
    IF cur = <<>> THEN TRUE
    ELSE IF Len(new_state.board) < Len(cur[1].board) THEN TRUE
    ELSE IF /\ new_state.hole_cards # <<>>
            /\ cur[1].hole_cards # <<>>
            /\ Range(new_state.hole_cards) # Range(cur[1].hole_cards)
    THEN TRUE
    ELSE FALSE

\* GameStateManager._is_new_hand;
\* new_state.pot < self.current_state.pot * 0.5, on integer-valued pots
_is_new_hand(cur, new_state) ==
    IF cur = <<>> THEN TRUE
    ELSE IF Len(new_state.board) < Len(cur[1].board) THEN TRUE
    ELSE IF 2 * new_state.pot < cur[1].pot THEN TRUE
    ELSE IF /\ new_state.hole_cards # <<>>
            /\ cur[1].hole_cards # <<>>
            /\ Range(new_state.hole_cards) # Range(cur[1].hole_cards)
    THEN TRUE
    ELSE FALSE

ManagerResult(buffer, cur, hn, v, is_confident, game_state, nh) ==
    [buffer |-> buffer, current_state |-> cur, hand_number |-> hn,
     validated |-> v.is_confident, is_confident |-> is_confident,
     confidence |-> v.confidence, aggregate |-> v.aggregate,
     game_state |-> game_state, new_hand |-> nh]

\* a faulty variant: a new hand skips a number
EnterState_skipping(v, hn, game_state, nh) ==
    ManagerResult(IF nh THEN <<>> ELSE v.buffer, <<game_state>>,
                  IF nh THEN hn + 2 ELSE hn, v, TRUE, <<game_state>>, nh)

\* the `if self._is_new_hand(game_state):` block and what follows it
EnterState(v, hn, game_state, nh) ==
    ManagerResult(IF nh THEN <<>> ELSE v.buffer, <<game_state>>,
                  IF nh THEN hn + 1 ELSE hn, v, TRUE, <<game_state>>, nh)

\* a faulty variant: a new hand leaves the validator window as it is
AfterValidate_keeping_window(v, cur, hn, vision_data) ==
    IF ~v.is_confident
    THEN ManagerResult(v.buffer, cur, hn, v, FALSE, <<>>, FALSE)
    ELSE IF ~GameStateValid(vision_data)
    THEN ManagerResult(v.buffer, cur, hn, v, FALSE, <<>>, FALSE)
    ELSE ManagerResult(v.buffer, <<GameState(vision_data)>>,
                       IF _is_new_hand(cur, GameState(vision_data))
                       THEN hn + 1 ELSE hn,
                       v, TRUE, <<GameState(vision_data)>>,
                       _is_new_hand(cur, GameState(vision_data)))

\* process_vision_output after validator.validate returned v
AfterValidate(v, cur, hn, vision_data) ==
    IF ~v.is_confident
    THEN ManagerResult(v.buffer, cur, hn, v, FALSE, <<>>, FALSE)
    ELSE IF ~GameStateValid(vision_data)
    THEN ManagerResult(v.buffer, cur, hn, v, FALSE, <<>>, FALSE)
    ELSE EnterState(v, hn, GameState(vision_data),
                    _is_new_hand(cur, GameState(vision_data)))

\* a faulty variant: current_state is assigned before GameState is
\* validated
process_vision_output_entering(buf, thr, cur, hn, vision_data) ==
    LET v == validate(buf, thr, vision_data)
        r == AfterValidate(v, cur, hn, vision_data)
    IN  IF v.is_confident /\ ~r.is_confident
        THEN [r EXCEPT !.current_state = <<GameState(vision_data)>>]
        ELSE r

\* GameStateManager.process_vision_output: the fields after the call and
\* the returned triple (is_confident, confidence, game_state)
process_vision_output(buf, thr, cur, hn, vision_data) ==
    AfterValidate(validate(buf, thr, vision_data), cur, hn, vision_data)

NoOut ==
    [op |-> "none", obs |-> <<>>, n_before |-> 0, validated |-> FALSE,
     is_confident |-> FALSE, confidence |-> FZero, aggregate |-> FZero,
     game_state |-> <<>>, new_hand |-> FALSE]

\* ConfidenceValidator(threshold=...) and GameStateManager.__init__
InitVal ==
    /\ state_buffer = <<>>
    /\ threshold \in {Dec(t) : t \in Thresholds}
    /\ current_state = <<>>
    /\ hand_number = 0
    /\ session_id = 1
    /\ calls = 0
    /\ since_reset = 0
    /\ vout = NoOut

Stamp(o) == [o EXCEPT !.arrival = calls + 1]

\* the validator's fields and the caller's view after validate returned v
ValidateReturns(o, v) ==
    /\ state_buffer' = v.buffer
    /\ vout' = [NoOut EXCEPT !.op = "validate", !.obs = <<o>>,
                    !.n_before = Len(state_buffer),
                    !.validated = v.is_confident,
                    !.is_confident = v.is_confident,
                    !.confidence = v.confidence,
                    !.aggregate = v.aggregate]

\* validator.validate(game_state), called on the validator directly
Validate(o) ==
    /\ calls < MaxCalls
    /\ ValidateReturns(Stamp(o), validate(state_buffer, threshold, Stamp(o)))
    /\ calls' = calls + 1
    /\ since_reset' = since_reset + 1
    /\ UNCHANGED <<threshold, current_state, hand_number, session_id>>

\* ConfidenceValidator.reset
Reset ==
    /\ state_buffer' = <<>>
    /\ since_reset' = 0
    /\ vout' = [NoOut EXCEPT !.op = "reset"]
    /\ UNCHANGED <<threshold, current_state, hand_number, session_id, calls>>

\* the manager's and validator's fields after process_vision_output
\* returned r
ManagerReturns(o, r) ==
    /\ state_buffer' = r.buffer
    /\ current_state' = r.current_state
    /\ hand_number' = r.hand_number
    /\ since_reset' = IF r.new_hand THEN 0 ELSE since_reset + 1
    /\ calls' = calls + 1
    /\ vout' = [op |-> "process", obs |-> <<o>>,
                n_before |-> Len(state_buffer),
                validated |-> r.validated,
                is_confident |-> r.is_confident,
                confidence |-> r.confidence, aggregate |-> r.aggregate,
                game_state |-> r.game_state, new_hand |-> r.new_hand]

\* state_manager.process_vision_output(vision_data)
ProcessVisionOutput(o) ==
    /\ calls < MaxCalls
    /\ ManagerReturns(Stamp(o),
                      process_vision_output(state_buffer, threshold,
                                            current_state, hand_number,
                                            Stamp(o)))
    /\ UNCHANGED <<threshold, session_id>>

\* a faulty variant: the previous state survives the session reset
ResetSession_keeping_state ==
    /\ session_id < MaxSessions
    /\ session_id' = session_id + 1
    /\ hand_number' = 0
    /\ state_buffer' = <<>>
    /\ since_reset' = 0
    /\ vout' = [NoOut EXCEPT !.op = "reset_session"]
    /\ UNCHANGED <<threshold, calls, current_state>>

\* GameStateManager.reset_session
ResetSession ==
    /\ session_id < MaxSessions
    /\ session_id' = session_id + 1
    /\ hand_number' = 0
    /\ current_state' = <<>>
    /\ state_buffer' = <<>>
    /\ since_reset' = 0
    /\ vout' = [NoOut EXCEPT !.op = "reset_session"]
    /\ UNCHANGED <<threshold, calls>>

(***************************************************************************)
(* LLM providers and the orchestrator.  Optional numbers are [k, v] with   *)
(* k = "none" for None; confidences of baselines, replies and               *)
(* recommendations are hundredths.  PyNone is the value None where a       *)
(* string is expected.                                                     *)
(***************************************************************************)
VARIABLES
    openai,     \* OpenAIFallback: [lib |-> OPENAI_AVAILABLE, client |-> ...]
    gemini,     \* GeminiFallback: [lib |-> GEMINI_AVAILABLE, client |-> model]
    orch,       \* "absent", "ready", or "init_failed" (__init__ raised)
    oout        \* what the last LLMOrchestrator.get_recommendation did

orchVars == <<openai, gemini, orch, oout>>

PyNone == "<None>"
NoNum == [k |-> "none", v |-> 0]
Some(n) == [k |-> "num", v |-> n]

\* OpenAIFallback.__init__ / GeminiFallback.__init__: client is "unset" when
\* __init__ returned before assigning the attribute
FallbackInit(lib, api_key, init_ok) ==
    [lib |-> lib,
     client |-> IF ~lib THEN "unset"
                ELSE IF ~api_key THEN "unset"
                ELSE IF init_ok THEN "ok" ELSE "None"]

\* OpenAIFallback.is_available / GeminiFallback.is_available:
\* OPENAI_AVAILABLE and self.client is not None
Fallback_is_available(f) ==
    IF ~f.lib THEN "False"
    ELSE IF f.client = "unset" THEN "AttributeError"
    ELSE IF f.client = "None" THEN "False" ELSE "True"

\* ClaudeCLI._check_cli_available on the outcome of `claude --version`
ClaudeProbes == {"rc0", "nonzero", "FileNotFoundError", "TimeoutExpired"}
_check_cli_available(probe) == IF probe = "rc0" THEN "True" ELSE "False"

\* provider replies: kind is how the call ended; for "text" the content is
\* json = "none" (no braces), "invalid" (json.loads fails) or "object" with
\* the fields of the decoded object
Reply(kind, json, action, confidence, amount, alts) ==
    [kind |-> kind, json |-> json, action |-> action,
     confidence |-> confidence, amount |-> amount, alts |-> alts]

Absent == [k |-> "absent", v |-> 0]
BadNum == [k |-> "bad", v |-> 0]
NoAlts == <<>>
Alts == <<"CALL">>

Failure(kind) == Reply(kind, "none", "absent", Absent, Absent, NoAlts)
Text(json) == Reply("text", json, "absent", Absent, Absent, NoAlts)
Object(action, confidence, amount, alts) ==
    Reply("text", "object", action, confidence, amount, alts)

Replies ==
    { Failure("timeout"), Failure("error"), Failure("nonzero"),
      Text("none"), Text("invalid"),
      Object("absent", Some(80), Absent, NoAlts),
      Object("null", Absent, Absent, NoAlts),
      Object("RAISE", BadNum, Some(450), NoAlts),
      Object("RAISE", Some(150), Some(450), NoAlts),
      Object("RAISE", Some(87), Some(450), Alts),
      Object("FOLD", Absent, Absent, NoAlts) }

NoResult == [some |-> FALSE, action |-> PyNone, amount |-> NoNum,
             confidence |-> 0, alternatives |-> NoAlts]

\* the dict built at the end of every _parse_response
ParsedDict(reply) ==
    [some |-> TRUE,
     action |-> IF reply.action \in {"absent", "null"} THEN PyNone
                ELSE reply.action,
     amount |-> IF reply.amount.k = "num" THEN reply.amount ELSE NoNum,
     confidence |-> IF reply.confidence.k = "absent" THEN 75
                    ELSE reply.confidence.v,
     alternatives |-> reply.alts]

\* ClaudeCLI._parse_response
Claude_parse_response(reply) ==
    IF reply.json = "none" THEN NoResult
    ELSE IF reply.json = "invalid" THEN NoResult
    ELSE IF reply.action = "absent" THEN NoResult
    ELSE IF reply.confidence.k = "bad" THEN NoResult
    ELSE ParsedDict(reply)

\* OpenAIFallback._parse_response and GeminiFallback._parse_response
Fallback_parse_response(reply) ==
    IF reply.json = "none" THEN NoResult
    ELSE IF reply.json = "invalid" THEN NoResult
    ELSE IF reply.confidence.k = "bad" THEN NoResult
    ELSE ParsedDict(reply)

\* ClaudeCLI.get_recommendation
Claude_get_recommendation(reply) ==
    IF reply.kind \in {"timeout", "error", "nonzero"} THEN NoResult
    ELSE Claude_parse_response(reply)

\* OpenAIFallback.get_recommendation / GeminiFallback.get_recommendation
Fallback_get_recommendation(f, reply) ==
    IF ~f.lib \/ f.client # "ok" THEN NoResult
    ELSE IF reply.kind # "text" THEN NoResult
    ELSE Fallback_parse_response(reply)

\* hand-history rows as the callers pass them: amount_won is NoNum for the
\* SQL NULL that Database.get_recent_hands returns for a column that
\* Database.log_decision never writes
Row(n, amount_won) == [hand_number |-> n, amount_won |-> amount_won]

LastFive(history) ==
    SubSeq(history, IF Len(history) > 5 THEN Len(history) - 4 ELSE 1,
           Len(history))

\* PromptBuilder._format_hand_history: `amount > 0` raises TypeError on None
_format_hand_history(history) ==
    LET rows == LastFive(history)
    IN  IF history = <<>>
        THEN [raised |-> FALSE, lines |-> <<"No recent hands">>]
        ELSE IF \E i \in 1..Len(rows) : rows[i].amount_won.k = "none"
        THEN [raised |-> TRUE, lines |-> <<>>]
        ELSE [raised |-> FALSE,
              lines |-> [i \in 1..Len(rows) |->
                            <<rows[i].hand_number,
                              IF rows[i].amount_won.v > 0 THEN "+" ELSE "",
                              rows[i].amount_won.v>>]]

\* PromptBuilder.build_decision_prompt (hand_history None or [] is <<>>)
build_decision_prompt(game_state, gto_baseline, hand_history) ==
    LET h == _format_hand_history(hand_history)
    IN  [raised |-> h.raised,
         hand |-> game_state.hole_cards, board |-> game_state.board,
         pot |-> game_state.pot, baseline |-> gto_baseline,
         shown |-> Len(hand_history), history |-> h.lines]

Baseline(action, sizing, confidence) ==
    [action |-> action, sizing |-> sizing, confidence |-> confidence]

\* the shapes GTODecisionEngine.get_recommendation(...).dict() takes
Baselines ==
    { Baseline("RAISE", Some(3), 85), Baseline("BET", Some(0), 60),
      Baseline("CHECK", NoNum, 50) }

Histories ==
    { <<>>,
      <<Row(1, NoNum)>>,
      <<Row(1, NoNum), Row(2, Some(0)), Row(3, Some(5)), Row(4, Some(0)),
        Row(5, Some(0)), Row(6, Some(100))>> }

Recommendation(action, amount, confidence, reasoning, alternatives, gto_baseline, llm_provider, fallback_used) ==
    [action |-> action, amount |-> amount, confidence |-> confidence,
     reasoning |-> reasoning, alternatives |-> alternatives,
     gto_baseline |-> gto_baseline, llm_provider |-> llm_provider,
     fallback_used |-> fallback_used]

\* pydantic validation of Recommendation: action is a str, 0 <= confidence <= 1
RecommendationValid(result) ==
    /\ result.action # PyNone
    /\ result.confidence >= 0
    /\ result.confidence <= 100

\* LLMOrchestrator._gto_only_recommendation
_gto_only_recommendation(gto_baseline) ==
    LET action_str == gto_baseline.action
        sizing == gto_baseline.sizing
        truthy == sizing.k = "num" /\ sizing.v # 0
        action_display ==
            IF action_str = "RAISE" /\ truthy THEN <<"RAISE to $", sizing.v>>
            ELSE IF action_str = "BET" /\ truthy THEN <<"BET $", sizing.v>>
            ELSE <<action_str>>
    IN  Recommendation(action_display, sizing, gto_baseline.confidence,
                       "LLM reasoning unavailable. Using GTO baseline only.",
                       <<>>, gto_baseline, "gto_only", TRUE)

\* a faulty variant: the first two providers swapped
providers_swapped == <<"openai", "claude_cli", "gemini">>

\* the list [("claude_cli", ...), ("openai", ...), ("gemini", ...)]
providers == <<"claude_cli", "openai", "gemini">>

Event(ev, p, res, reply) == [ev |-> ev, p |-> p, res |-> res, reply |-> reply]
NoReply == Failure("none")

\* provider.is_available() of the i-th provider, with the events it causes:
\* ClaudeCLI.is_available runs the `claude --version` subprocess every time
is_available(p, oa, ga, probe) ==
    IF p = "claude_cli" THEN _check_cli_available(probe)
    ELSE IF p = "openai" THEN Fallback_is_available(oa)
    ELSE Fallback_is_available(ga)

AvailabilityEvents(p, av) ==
    (IF p = "claude_cli" THEN <<Event("subprocess", p, "", NoReply)>> ELSE <<>>)
    \o <<Event("is_available", p, av, NoReply)>>

provider_get_recommendation(p, oa, ga, reply) ==
    IF p = "claude_cli" THEN Claude_get_recommendation(reply)
    ELSE IF p = "openai" THEN Fallback_get_recommendation(oa, reply)
    ELSE Fallback_get_recommendation(ga, reply)

NoRec == Recommendation(<<>>, NoNum, 0, "", <<>>, Baseline("", NoNum, 0), "", FALSE)

Outcome(outcome, error, rec, trace) ==
    [outcome |-> outcome, error |-> error, rec |-> rec, trace |-> trace]

\* a faulty variant: every provider counts as a fallback
FallbackUsed_always(provider_name) == TRUE

\* fallback_used=(provider_name != "claude_cli")
FallbackUsed(provider_name) == provider_name # "claude_cli"

\* the provider loop of LLMOrchestrator.get_recommendation from index i on
RECURSIVE TryProviders(_, _, _, _, _, _, _)
TryProviders(i, oa, ga, probe, reply, gto_baseline, trace) ==
    IF i > Len(providers)
    THEN Outcome("returned", "", _gto_only_recommendation(gto_baseline), trace)
    ELSE
      LET provider_name == providers[i]
          av == is_available(provider_name, oa, ga, probe)
          t1 == trace \o AvailabilityEvents(provider_name, av)
      IN  IF av = "AttributeError" THEN Outcome("raised", av, NoRec, t1)
          ELSE IF av = "False"
          THEN TryProviders(i + 1, oa, ga, probe, reply, gto_baseline, t1)
          ELSE
            LET result == provider_get_recommendation(
                              provider_name, oa, ga, reply[provider_name])
                t2 == Append(t1, Event("attempt", provider_name,
                                       IF result.some THEN "result" ELSE "None",
                                       reply[provider_name]))
            IN  IF result.some
                THEN IF RecommendationValid(result)
                     THEN Outcome("returned", "",
                              Recommendation(<<result.action>>, result.amount,
                                  result.confidence, "llm",
                                  result.alternatives, gto_baseline,
                                  provider_name, FallbackUsed(provider_name)),
                              t2)
                     ELSE Outcome("raised", "ValidationError", NoRec, t2)
                ELSE TryProviders(i + 1, oa, ga, probe, reply, gto_baseline, t2)

\* LLMOrchestrator.get_recommendation
get_recommendation(oa, ga, probe, reply, game_state, gto_baseline, hand_history) ==
    LET prompt == build_decision_prompt(game_state, gto_baseline, hand_history)
    IN  IF prompt.raised THEN Outcome("raised", "TypeError", NoRec, <<>>)
        ELSE TryProviders(1, oa, ga, probe, reply, gto_baseline, <<>>)

RepliesOf(p) ==
    IF p = "claude_cli" THEN Replies ELSE Replies \ {Failure("nonzero")}

Environments ==
    {r \in [Range(providers) -> Replies] :
        \A p \in Range(providers) : r[p] \in RepliesOf(p)}

NoCall ==
    [outcome |-> "none", error |-> "", rec |-> NoRec, trace |-> <<>>,
     baseline |-> Baseline("", NoNum, 0), history |-> <<>>]

InitOrch ==
    /\ openai = FallbackInit(FALSE, FALSE, FALSE)
    /\ gemini = FallbackInit(FALSE, FALSE, FALSE)
    /\ orch = "absent"
    /\ oout = NoCall

\* LLMOrchestrator.__init__: builds the three providers, then logs
\* is_available() of each, which raises when a client attribute is unset
ConstructOrchestrator ==
    /\ orch = "absent"
    /\ \E olib, okey, ook, glib, gkey, gok \in BOOLEAN :
         LET oa == FallbackInit(olib, okey, ook)
             ga == FallbackInit(glib, gkey, gok)
         IN  /\ openai' = oa
             /\ gemini' = ga
             /\ orch' = IF \/ Fallback_is_available(oa) = "AttributeError"
                           \/ Fallback_is_available(ga) = "AttributeError"
                        THEN "init_failed" ELSE "ready"
    /\ UNCHANGED oout

GameStates == {ObsFlop}

\* the caller is done with the returned Recommendation (or the exception)
Release ==
    /\ oout.outcome # "none"
    /\ oout' = NoCall
    /\ UNCHANGED <<openai, gemini, orch>>

\* the caller's view once get_recommendation ended as r
Returns(r, gto_baseline, hand_history) ==
    oout' = [outcome |-> r.outcome, error |-> r.error, rec |-> r.rec,
             trace |-> r.trace, baseline |-> gto_baseline,
             history |-> hand_history]

\* llm.get_recommendation(game_state, gto_baseline, hand_history, stats);
\* oout holds the outcome until the caller lets go of it
GetRecommendation ==
    /\ orch = "ready"
    /\ oout.outcome = "none"
    /\ \E probe \in ClaudeProbes, reply \in Environments,
          game_state \in GameStates, gto_baseline \in Baselines,
          hand_history \in Histories :
         Returns(get_recommendation(openai, gemini, probe, reply, game_state,
                                    gto_baseline, hand_history),
                 gto_baseline, hand_history)
    /\ UNCHANGED <<openai, gemini, orch>>

(***************************************************************************)
(* LLMPokerAssistant: construction, and _main_loop iterations in which     *)
(* check_for_changes() reported a change, so _process_frame runs.  pc is   *)
(* the position of _process_frame between its awaits; cyc.events lists     *)
(* what the current (or last) iteration did, in order.                     *)
(***************************************************************************)
(* The provider attempts of one LLMOrchestrator.get_recommendation call in *)
(* time: a tick is one unit of the clock, Timeout ticks the configured     *)
(* timeout the orchestrator hands to each provider.                        *)
(***************************************************************************)
VARIABLES
    att         \* the get_recommendation call in progress, if any

attemptVars == <<att>>

Timeout == 2
MaxWait == 4

NoAttempt == [phase |-> "idle", i |-> 0, elapsed |-> 0, made |-> 0]
InitAttempts == att = NoAttempt

\* whether the call the provider makes is given self.timeout:
\* subprocess.run(cmd, timeout=self.timeout) and
\* openai.OpenAI(api_key=..., timeout=self.timeout) are;
\* self.model.generate_content(full_prompt) is not
EnforcesTimeout(p) == p \in {"claude_cli", "openai"}

\* the longest a call of provider p waits for an answer
WaitLimit(p) == IF EnforcesTimeout(p) THEN Timeout ELSE MaxWait

\* get_recommendation is called: the loop starts at the first provider
BeginCall ==
    /\ orch = "ready"
    /\ att.phase = "idle"
    /\ att' = [phase |-> "select", i |-> 1, elapsed |-> 0, made |-> 0]
    /\ UNCHANGED orchVars

\* one turn of the loop: past the last provider the baseline is returned;
\* a provider that is not available is skipped; an available one is called
SelectProvider ==
    /\ att.phase = "select"
    /\ IF att.i > Len(providers)
       THEN att' = [att EXCEPT !.phase = "returned"]
       ELSE \E probe \in ClaudeProbes :
              IF is_available(providers[att.i], openai, gemini, probe) = "True"
              THEN att' = [att EXCEPT !.phase = "waiting", !.elapsed = 0,
                                      !.made = @ + 1]
              ELSE att' = [att EXCEPT !.i = @ + 1]
    /\ UNCHANGED orchVars

\* time passes while the provider has not answered
Tick ==
    /\ att.phase = "waiting"
    /\ att.elapsed < WaitLimit(providers[att.i])
    /\ att' = [att EXCEPT !.elapsed = @ + 1]
    /\ UNCHANGED orchVars

\* the provider answers: with a result the call returns it, without one
\* (None) the loop goes on to the next provider
Answer ==
    /\ att.phase = "waiting"
    /\ EnforcesTimeout(providers[att.i]) => att.elapsed < Timeout
    /\ \E result \in BOOLEAN :
          att' = IF result THEN [att EXCEPT !.phase = "returned"]
                 ELSE [att EXCEPT !.phase = "select", !.i = @ + 1]
    /\ UNCHANGED orchVars

\* subprocess.TimeoutExpired, or the timeout error of the OpenAI client:
\* caught by the provider, which returns None
Expire ==
    /\ att.phase = "waiting"
    /\ EnforcesTimeout(providers[att.i])
    /\ att.elapsed = Timeout
    /\ att' = [att EXCEPT !.phase = "select", !.i = @ + 1]
    /\ UNCHANGED orchVars

\* the caller has the Recommendation
EndCall ==
    /\ att.phase = "returned"
    /\ att' = NoAttempt
    /\ UNCHANGED orchVars

(***************************************************************************)
(* Policy cache: gto/strategy_cache.py with utils/card_utils.py and        *)
(* gto/hand_evaluator.py, and GTODecisionEngine.get_recommendation on top  *)
(* of it.  A card is the Python string of the observation; Chars gives its *)
(* characters, so that c[0], c[1] and len(c) are what Python computes.     *)
(* Hand classes ("AKo") are sequences of characters.  Confidences are in   *)
(* hundredths.  A call either returns a value or raises.                   *)
(***************************************************************************)
VARIABLES
    preflop_ranges,     \* GTOStrategyCache.preflop_ranges
    postflop_buckets,   \* GTOStrategyCache.postflop_buckets
    loaded,             \* GTOStrategyCache.loaded
    treys,              \* the treys library of this build: absent, or the
                        \* rank Evaluator.evaluate gives each hand
    gout,               \* what the last call on the cache did
    memo                \* an earlier lookup of the cache as it is loaded now

cacheVars == <<preflop_ranges, postflop_buckets, loaded, treys, gout, memo>>

RANKS == {"A", "K", "Q", "J", "T", "9", "8", "7", "6", "5", "4", "3", "2"}
SUITS == {"s", "h", "d", "c"}

\* the characters of a card string
Chars(card) ==
    CASE card = "" -> <<>>
      [] card = "A" -> <<"A">>
      [] card = "K" -> <<"K">>
      [] card = "Q" -> <<"Q">>
      [] card = "Ah" -> <<"A", "h">>
      [] card = "Kd" -> <<"K", "d">>
      [] card = "Kh" -> <<"K", "h">>
      [] card = "Ks" -> <<"K", "s">>
      [] card = "Qh" -> <<"Q", "h">>
      [] card = "Js" -> <<"J", "s">>
      [] card = "Tc" -> <<"T", "c">>
      [] card = "ah" -> <<"a", "h">>
      [] card = "kd" -> <<"k", "d">>
      [] card = "Xx" -> <<"X", "x">>
      [] card = "as" -> <<"a", "s">>
      [] card = "KD" -> <<"K", "D">>
      [] OTHER -> CHOOSE c \in RANKS \X SUITS : c[1] \o c[2] = card

\* str.upper and str.lower on one character
upper(ch) ==
    CASE ch = "a" -> "A" [] ch = "k" -> "K" [] ch = "x" -> "X"
      [] ch = "h" -> "H" [] ch = "d" -> "D" [] ch = "s" -> "S"
      [] ch = "c" -> "C" [] OTHER -> ch
lower(ch) ==
    CASE ch = "A" -> "a" [] ch = "K" -> "k" [] ch = "Q" -> "q"
      [] ch = "J" -> "j" [] ch = "T" -> "t" [] ch = "X" -> "x"
      [] ch = "H" -> "h" [] ch = "D" -> "d" [] ch = "S" -> "s"
      [] ch = "C" -> "c" [] OTHER -> ch

RANK_MAP(r) ==
    CASE r = "A" -> 14 [] r = "K" -> 13 [] r = "Q" -> 12 [] r = "J" -> 11
      [] r = "T" -> 10 [] r = "9" -> 9 [] r = "8" -> 8 [] r = "7" -> 7
      [] r = "6" -> 6 [] r = "5" -> 5 [] r = "4" -> 4 [] r = "3" -> 3
      [] r = "2" -> 2

NoCard == <<>>
\* card_utils.normalize_card: the normalized card, or NoCard for None
normalize_card(card) ==
    LET c == Chars(card)
    IN  IF Len(c) # 2 THEN NoCard
        ELSE IF upper(c[1]) \notin RANKS \/ lower(c[2]) \notin SUITS
             THEN NoCard
             ELSE <<upper(c[1]), lower(c[2])>>

NoHand == <<>>
\* a faulty variant: the two cards are never swapped
normalize_hand_as_given(cards) ==
    IF Len(cards) # 2 THEN NoHand
    ELSE LET card1 == normalize_card(cards[1])
             card2 == normalize_card(cards[2])
         IN  IF card1 = NoCard \/ card2 = NoCard THEN NoHand
             ELSE IF card1[1] = card2[1] THEN <<card1[1], card2[1]>>
             ELSE IF card1[2] = card2[2] THEN <<card1[1], card2[1], "s">>
             ELSE <<card1[1], card2[1], "o">>

\* card_utils.normalize_hand: the hand class, or NoHand for None
normalize_hand(cards) ==
    IF Len(cards) # 2 THEN NoHand
    ELSE LET card1 == normalize_card(cards[1])
             card2 == normalize_card(cards[2])
         IN  IF card1 = NoCard \/ card2 = NoCard THEN NoHand
             ELSE LET swap == RANK_MAP(card1[1]) < RANK_MAP(card2[1])
                      rank1 == IF swap THEN card2[1] ELSE card1[1]
                      suit1 == IF swap THEN card2[2] ELSE card1[2]
                      rank2 == IF swap THEN card1[1] ELSE card2[1]
                      suit2 == IF swap THEN card1[2] ELSE card2[2]
                  IN  IF rank1 = rank2 THEN <<rank1, rank2>>
                      ELSE IF suit1 = suit2 THEN <<rank1, rank2, "s">>
                      ELSE <<rank1, rank2, "o">>

\* the elements of s, how often x occurs in s, and the largest such count
Elements(s) == {s[i] : i \in 1..Len(s)}
Count(s, x) == Cardinality({i \in 1..Len(s) : s[i] = x})
MaxCount(s) ==
    CHOOSE n \in 0..Len(s) :
        /\ \A x \in Elements(s) : Count(s, x) <= n
        /\ (n = 0 \/ \E y \in Elements(s) : Count(s, y) = n)

\* c[0] for c in cards, c[1] for c in cards; each raises IndexError on a
\* card too short
HasChar(cards, k) == \A i \in 1..Len(cards) : Len(Chars(cards[i])) >= k
CharsAt(cards, k) == [i \in 1..Len(cards) |-> Chars(cards[i])[k]]

\* treys: Card.new accepts a rank of "23456789TJQKA" and a suit of "shdc";
\* Evaluator.evaluate takes five to seven cards
TreysCard(card) ==
    LET c == Chars(card)
    IN  Len(c) >= 2 /\ c[1] \in RANKS /\ c[2] \in SUITS
TreysEvaluates(hole_cards, board) ==
    /\ \A i \in 1..Len(hole_cards) : TreysCard(hole_cards[i])
    /\ \A i \in 1..Len(board) : TreysCard(board[i])
    /\ Len(hole_cards) + Len(board) \in 5..7

\* hand_evaluator._calculate_hand_strength_treys
_calculate_hand_strength_treys(lib, hole_cards, board) ==
    IF ~TreysEvaluates(hole_cards, board) THEN "MEDIUM"
    ELSE LET rank == lib.rank[<<hole_cards, board>>]
         IN  IF rank < 500 THEN "NUTS"
             ELSE IF rank < 1500 THEN "STRONG"
             ELSE IF rank < 3000 THEN "MEDIUM"
             ELSE IF rank < 5000 THEN "WEAK"
             ELSE "BLUFF"

\* hand_evaluator._calculate_hand_strength_simple
_calculate_hand_strength_simple(hole_cards, board) ==
    IF hole_cards = <<>> \/ board = <<>> THEN "MEDIUM"
    ELSE IF ~HasChar(hole_cards, 1) \/ ~HasChar(board, 1) THEN "IndexError"
    ELSE LET hole_ranks == CharsAt(hole_cards, 1)
             all_ranks == hole_ranks \o CharsAt(board, 1)
             max_count == MaxCount(all_ranks)
             twice == {r \in Elements(all_ranks) : Count(all_ranks, r) >= 2}
             pairs == {r \in Elements(all_ranks) : Count(all_ranks, r) = 2}
         IN  IF max_count >= 4 THEN "NUTS"
             ELSE IF max_count = 3
                  THEN IF Cardinality(twice) >= 2 THEN "NUTS" ELSE "STRONG"
             ELSE IF max_count = 2
                  THEN IF Cardinality(pairs) >= 2 THEN "STRONG" ELSE "MEDIUM"
             ELSE IF \E i \in 1..Len(hole_ranks) : hole_ranks[i] \in {"A", "K", "Q"}
                  THEN "MEDIUM"
                  ELSE "WEAK"

\* hand_evaluator.calculate_hand_strength
calculate_hand_strength(lib, hole_cards, board) ==
    IF lib.available THEN _calculate_hand_strength_treys(lib, hole_cards, board)
    ELSE _calculate_hand_strength_simple(hole_cards, board)

\* sorted(..., reverse=True) of a list of numbers
RECURSIVE SortDesc(_)
SortDesc(s) ==
    IF s = <<>> THEN <<>>
    ELSE LET m == CHOOSE i \in 1..Len(s) : \A j \in 1..Len(s) : s[j] <= s[i]
         IN  <<s[m]>> \o SortDesc(SubSeq(s, 1, m - 1) \o SubSeq(s, m + 1, Len(s)))

\* hand_evaluator._has_straight_potential
_has_straight_potential(ranks) ==
    LET known == SelectSeq(ranks, LAMBDA r : r \in RANKS)
        rank_nums == SortDesc([i \in 1..Len(known) |-> RANK_MAP(known[i])])
    IN  /\ Len(rank_nums) >= 3
        /\ \E i \in 1..(Len(rank_nums) - 2) :
              /\ rank_nums[i] - rank_nums[i + 1] <= 2
              /\ rank_nums[i + 1] - rank_nums[i + 2] <= 2

\* a faulty variant: the suits are looked at before the ranks
classify_board_texture_suits_first(board) ==
    IF Len(board) < 3 THEN "DRY"
    ELSE IF ~HasChar(board, 2) THEN "IndexError"
    ELSE LET suits == CharsAt(board, 2)
             ranks == CharsAt(board, 1)
         IN  IF MaxCount(suits) >= 3 THEN "WET"
             ELSE IF MaxCount(ranks) >= 2 THEN "PAIRED"
             ELSE IF _has_straight_potential(ranks) THEN "COORDINATED"
             ELSE "DRY"

\* hand_evaluator.classify_board_texture
classify_board_texture(board) ==
    IF Len(board) < 3 THEN "DRY"
    ELSE IF ~HasChar(board, 2) THEN "IndexError"
    ELSE LET suits == CharsAt(board, 2)
             ranks == CharsAt(board, 1)
         IN  IF MaxCount(ranks) >= 2 THEN "PAIRED"
             ELSE IF MaxCount(suits) >= 3 THEN "WET"
             ELSE IF _has_straight_potential(ranks) THEN "COORDINATED"
             ELSE "DRY"

\* the `spr = stack / pot if pot > 0 else 100` of _get_postflop_action, on
\* floats
spr(stack, pot) ==
    IF FCmp(pot, FZero) > 0 THEN FDiv(stack, pot) ELSE FromInt(100)

\* GTOStrategyCache._bucket_spr
_bucket_spr(s) ==
    IF FCmp(s, FromInt(10)) > 0 THEN "DEEP"
    ELSE IF FCmp(s, FromInt(3)) > 0 THEN "MEDIUM"
    ELSE "SHALLOW"

\* _bucket_spr(spr(stack, pot)) for a stack and a pot in whole dollars, as
\* the lookups here have them: the quotient of two whole numbers is above
\* k exactly when stack > k * pot
SprBucket(stack, pot) ==
    IF pot <= 0 THEN "DEEP"
    ELSE IF stack > 10 * pot THEN "DEEP"
    ELSE IF stack > 3 * pot THEN "MEDIUM"
    ELSE "SHALLOW"

\* a dict of the tables and of get_action's results; a key the dict does
\* not hold is Absent, or NoKey where the values are strings
NoKey == "<absent>"
Entry(action, sizing, confidence, range) ==
    [action |-> action, sizing |-> sizing, confidence |-> confidence,
     range |-> range]

NoValue == Entry(NoKey, Absent, Absent, NoKey)
Returned(value) == [raised |-> FALSE, error |-> "", value |-> value]
Raised(error) == [raised |-> TRUE, error |-> error, value |-> NoValue]

\* GTOStrategyCache._default_action
_default_action == Entry("CHECK", Some(0), Some(50), NoKey)

\* dict.get(position, {})
RangesOf(ranges, position) ==
    IF position \in DOMAIN ranges THEN ranges[position] ELSE <<>>

\* GTOStrategyCache._get_preflop_action writing the confidence into the
\* stored entry itself
_get_preflop_action_in_place(ranges, position, hole_cards) ==
    LET hand_key == normalize_hand(hole_cards)
        position_ranges == RangesOf(ranges, position)
    IN  IF hand_key = NoHand
        THEN [out |-> Returned(_default_action), preflop_ranges |-> ranges]
        ELSE IF hand_key \in DOMAIN position_ranges
        THEN [out |-> Returned([position_ranges[hand_key] EXCEPT !.confidence = Some(85)]),
              preflop_ranges |-> [ranges EXCEPT ![position][hand_key].confidence = Some(85)]]
        ELSE [out |-> Returned(Entry("FOLD", Some(0), Some(90), NoKey)),
              preflop_ranges |-> ranges]

\* GTOStrategyCache._get_preflop_action: the result, and the ranges after
\* the call (the confidence is written into a copy of the stored entry)
_get_preflop_action(ranges, position, hole_cards) ==
    LET hand_key == normalize_hand(hole_cards)
        position_ranges == RangesOf(ranges, position)
    IN  IF hand_key = NoHand
        THEN [out |-> Returned(_default_action), preflop_ranges |-> ranges]
        ELSE IF hand_key \in DOMAIN position_ranges
        THEN [out |-> Returned([position_ranges[hand_key] EXCEPT !.confidence = Some(85)]),
              preflop_ranges |-> ranges]
        ELSE [out |-> Returned(Entry("FOLD", Some(0), Some(90), NoKey)),
              preflop_ranges |-> ranges]

\* GTOStrategyCache._get_postflop_action
_get_postflop_action(buckets, lib, hole_cards, board, pot, stack) ==
    LET hand_strength == calculate_hand_strength(lib, hole_cards, board)
        board_texture == classify_board_texture(board)
        bucket_key == <<hand_strength, board_texture, SprBucket(stack, pot)>>
    IN  IF hand_strength = "IndexError" \/ board_texture = "IndexError"
        THEN Raised("IndexError")
        ELSE IF bucket_key \in DOMAIN buckets
        THEN Returned([buckets[bucket_key] EXCEPT !.confidence = Some(75)])
        ELSE Returned(Entry("CHECK", Some(0), Some(60), NoKey))

\* GTOStrategyCache.get_action: the result and the ranges after the call
get_action(ranges, buckets, is_loaded, lib, position, hole_cards, board, pot, stack) ==
    IF ~is_loaded
    THEN [out |-> Returned(_default_action), preflop_ranges |-> ranges]
    ELSE IF board = <<>>
    THEN _get_preflop_action(ranges, position, hole_cards)
    ELSE [out |-> _get_postflop_action(buckets, lib, hole_cards, board, pot, stack),
          preflop_ranges |-> ranges]

\* models.data_models.Action and GTOAction
ActionNames == {"FOLD", "CHECK", "CALL", "BET", "RAISE", "ALL_IN"}
GTOAction(action, sizing, confidence, range) ==
    [action |-> action, sizing |-> sizing, confidence |-> confidence,
     range |-> range]

\* GTODecisionEngine.get_recommendation from the try statement on: the
\* GTOAction built from the dict get_action returned, or the default when
\* building it raises
ToGTOAction(action_data) ==
    LET confidence == IF action_data.confidence = Absent THEN 75
                      ELSE action_data.confidence.v
    IN  IF \/ action_data.action \notin ActionNames
           \/ confidence < 0 \/ confidence > 100
        THEN GTOAction("CHECK", NoNum, 50, PyNone)
        ELSE GTOAction(action_data.action,
                       IF action_data.sizing = Absent THEN NoNum
                       ELSE action_data.sizing,
                       confidence,
                       IF action_data.range = NoKey THEN PyNone
                       ELSE action_data.range)

\* GTODecisionEngine.get_recommendation handing back the dict's own
\* confidence default
gto_get_recommendation_raw(out) ==
    IF out.raised THEN Raised(out.error)
    ELSE Returned(GTOAction(out.value.action, out.value.sizing, 75, PyNone))

\* GTODecisionEngine.get_recommendation after cache.get_action gave out,
\* which is called outside the try statement
gto_get_recommendation(out) ==
    IF out.raised THEN Raised(out.error)
    ELSE Returned(ToGTOAction(out.value))

\* the contents of preflop_ranges.pkl and postflop_buckets.pkl
HandAKo == <<"A", "K", "o">>
HandKK == <<"K", "K">>
PreflopFiles ==
    { "BTN" :> (HandAKo :> Entry("RAISE", Some(3), Absent, NoKey)),
      ("BTN" :> (HandAKo :> Entry("RAISE", Some(3), Some(30), "top 15%")
                 @@ HandKK :> Entry("ALL_IN", Absent, Some(100), NoKey)))
        @@ ("CO" :> (HandKK :> Entry("CALL", Some(2), Some(85), NoKey))) }
PostflopFiles ==
    { (<<"MEDIUM", "COORDINATED", "DEEP">> :> Entry("BET", Some(50), Some(20), NoKey))
        @@ (<<"MEDIUM", "PAIRED", "MEDIUM">> :> Entry("CHECK", Absent, Absent, NoKey))
        @@ (<<"BLUFF", "COORDINATED", "SHALLOW">> :> Entry("FOLD", Some(0), Some(75), NoKey)) }
\* a file on disk: missing, one pickle.load raises on, or holding a table
File(state, table) == [state |-> state, table |-> table]
PreflopDisk ==
    {File("missing", <<>>)} \cup {File("ok", t) : t \in PreflopFiles}
PostflopDisk ==
    {File("missing", <<>>), File("corrupt", <<>>)}
    \cup {File("ok", t) : t \in PostflopFiles}

\* the lookups made: position, hole cards, board, pot, stack
Lookup(position, hole_cards, board, pot, stack) ==
    [position |-> position, hole_cards |-> hole_cards, board |-> board,
     pot |-> pot, stack |-> stack]
PairedFlop == <<"Kh", "Ks", "Tc">>
WetFlop == <<"Qh", "Kh", "Ah">>
DryFlop == <<"Ah", "Tc", "Kd">>
Lookups ==
    { Lookup("BTN", AK, <<>>, 0, 1000),
      Lookup("BTN", <<"kd", "ah">>, <<>>, 0, 1000),
      Lookup("CO", AK, <<>>, 0, 1000),
      Lookup("UTG", KK, <<>>, 50, 1000),
      Lookup("BTN", <<>>, <<>>, 0, 1000),
      Lookup("BTN", <<"Ah">>, <<>>, 0, 1000),
      Lookup("BTN", <<"Xx", "Kd">>, <<>>, 0, 1000),
      Lookup("BTN", AK, Flop, 0, 1000),
      Lookup("BTN", AK, Flop, 100, 1000),
      Lookup("BTN", KK, Flop, 100, 200),
      Lookup("BTN", <<"ah", "kd">>, PairedFlop, 100, 1000),
      Lookup("BTN", <<"ah", "kd">>, WetFlop, 100, 1000),
      Lookup("BTN", <<>>, DryFlop, 100, 1001),
      Lookup("BTN", KK, <<"Qh", "Js">>, 100, 1000),
      Lookup("BTN", AK, <<"A", "K", "Q">>, 0, 1000),
      Lookup("BTN", <<"Ah", "">>, Flop, 0, 1000) }

\* the lookups an earlier result of which is kept for comparison
Probes == {q \in Lookups : q.position = "BTN" /\ q.hole_cards = AK}

\* the hands of Lookups that treys evaluates, and the ranks it may give
Evaluated == {<<AK, Flop>>, <<KK, Flop>>}
TreysRanks == {499, 5000}
TreysBuilds ==
    {[available |-> FALSE, rank |-> <<>>]}
    \cup {[available |-> TRUE, rank |-> r] : r \in [Evaluated -> TreysRanks]}

NoLookup == [op |-> "none"]

\* GTOStrategyCache()
InitCache ==
    /\ preflop_ranges = <<>>
    /\ postflop_buckets = <<>>
    /\ loaded = FALSE
    /\ treys \in TreysBuilds
    /\ gout = NoLookup
    /\ memo = NoLookup

\* the cache is as GTOStrategyCache() made it
Fresh == preflop_ranges = <<>> /\ postflop_buckets = <<>> /\ ~loaded

\* GTOStrategyCache.load_from_disk: a table is assigned when its file
\* exists, loaded is set at the end, and a pickle.load that raises leaves
\* what was assigned before it
LoadFromDisk ==
    \E pre \in PreflopDisk, post \in PostflopDisk :
       LET raised == post.state = "corrupt"
       IN  /\ preflop_ranges' = IF pre.state = "ok" THEN pre.table
                                ELSE preflop_ranges
           /\ postflop_buckets' = IF post.state = "ok" THEN post.table
                                  ELSE postflop_buckets
           /\ loaded' = IF raised THEN loaded ELSE TRUE
           /\ gout' = [op |-> "load_from_disk", raised |-> raised,
                        preflop |-> pre.state, postflop |-> post.state,
                        fresh |-> Fresh]
           /\ memo' = NoLookup
           /\ UNCHANGED treys

\* what a lookup leaves behind: its input, what get_action did and what
\* get_recommendation did
LookupReturns(q, r) ==
    [op |-> "lookup", input |-> q, dict |-> r.out,
     rec |-> gto_get_recommendation(r.out)]

\* the lookup as memo keeps it, and memo after a later lookup q: others
\* tells that a lookup of another input came after the one kept
Remembered(q, r) ==
    [op |-> "lookup", input |-> q, dict |-> r.out,
     rec |-> gto_get_recommendation(r.out), others |-> FALSE]
Kept(m, q) ==
    IF m.op = "lookup" /\ m.input # q THEN [m EXCEPT !.others = TRUE] ELSE m

\* GTODecisionEngine.get_recommendation(position, hole_cards, board, pot,
\* stack) on an engine holding this cache, cache.get_action included
GTOLookup ==
    \E q \in Lookups :
       LET r == get_action(preflop_ranges, postflop_buckets, loaded, treys,
                           q.position, q.hole_cards, q.board, q.pot, q.stack)
       IN  /\ preflop_ranges' = r.preflop_ranges
           /\ gout' = LookupReturns(q, r)
           /\ memo' \in {Kept(memo, q)}
                        \cup IF q \in Probes THEN {Remembered(q, r)} ELSE {}
           /\ UNCHANGED <<postflop_buckets, loaded, treys>>

(***************************************************************************)
(* Helper functions called on their own                                    *)
(***************************************************************************)
VARIABLES fn    \* the one call of a helper function: arguments and result

NoHelperCall ==
    [op |-> "none", cards |-> <<>>, out |-> <<>>,
     current |-> ObsAbsent, previous |-> ObsAbsent, score |-> FZero,
     data |-> [kind |-> "absent", confidence |-> <<>>], validated |-> <<>>,
     accepted |-> FALSE, stack |-> 0, pot |-> 0, label |-> "",
     window |-> <<>>, aggregate |-> FZero, confidence |-> FZero]

InitFn == fn = NoHelperCall

\* the cards validate_card accepts: a rank and a suit, in either case
ValidCards == {r \o s : r \in RANKS, s \in SUITS} \cup {"ah", "kd", "as", "KD"}

\* normalize_hand([h1, h2]) for valid cards h1, h2
NormalizeHand ==
    /\ fn = NoHelperCall
    /\ \E h1, h2 \in ValidCards :
        fn' = [NoHelperCall EXCEPT !.op = "normalize_hand", !.cards = <<h1, h2>>,
                             !.out = normalize_hand(<<h1, h2>>)]

\* the fields the extraction prompt asks a confidence for
ConfidenceFields == {"hole_cards", "board", "pot", "stacks"}
\* confidences the model may write, in hundredths: -0.2, 0.0, 0.5, 0.9, 1.5
ConfidenceValues == {-20, 0, 50, 90, 150}
\* data["confidence"] of the parsed answer: absent, a mapping of some of the
\* fields, or a value that is no mapping
ParsedConfidences ==
    {[kind |-> "absent", confidence |-> <<>>],
     [kind |-> "number", confidence |-> <<>>]}
    \cup {[kind |-> "mapping", confidence |-> c] :
             c \in UNION {[D -> ConfidenceValues] : D \in SUBSET ConfidenceFields}}

\* FastVLMInference._validate_game_state: the confidence mapping of the
\* returned observation
_validate_game_state(data) ==
    LET confidence == IF data.kind # "mapping" THEN <<>> ELSE data.confidence
    IN  IF DOMAIN confidence = {}
        THEN [f \in ConfidenceFields |-> 50]
        ELSE confidence

\* _validate_game_state(data) for a parsed answer
ValidateGameState ==
    /\ fn = NoHelperCall
    /\ \E data \in ParsedConfidences :
        fn' = [NoHelperCall EXCEPT !.op = "_validate_game_state",
                                   !.data = data,
                                   !.validated = _validate_game_state(data)]

\* boards of two consecutive observations: none, a flop, the flop with its
\* last or its first card read differently, the turn, the turn with the
\* first card read differently
Boards ==
    {<<>>, Flop, <<"Qh", "Js", "9c">>, <<"Kh", "Js", "Tc">>, Turn,
     <<"Kh", "Js", "Tc", "9d">>}

\* _check_board_consistency(current, previous)
CheckBoard ==
    /\ fn = NoHelperCall
    /\ \E b, pb \in Boards :
         LET current == MkObs(AK, b, 50, TRUE, <<Num(90)>>)
             previous == MkObs(AK, pb, 50, TRUE, <<Num(90)>>)
         IN  fn' = [NoHelperCall EXCEPT
                      !.op = "_check_board_consistency",
                      !.current = current, !.previous = previous,
                      !.score = _check_board_consistency(current, previous)]

\* hole cards of two consecutive observations: none, a hand, the same hand
\* in the other order, one card of it, hands sharing no or one card with it
Hands == {<<>>, AK, <<"Kd", "Ah">>, <<"Ah">>, KK, <<"Ah", "Ks">>}

\* _check_hole_cards_consistency(current, previous), and what validate says
\* of current when previous is the only observation in the window
CheckHoleCards ==
    /\ fn = NoHelperCall
    /\ \E h, ph \in Hands, level \in {90, 100} :
         LET current == MkObs(h, <<>>, 50, TRUE, <<Num(level)>>)
             previous == MkObs(ph, <<>>, 50, TRUE, <<Num(level)>>)
         IN  fn' = [NoHelperCall EXCEPT
                      !.op = "_check_hole_cards_consistency",
                      !.current = current, !.previous = previous,
                      !.score = _check_hole_cards_consistency(current, previous),
                      !.accepted = validate(<<previous>>, threshold,
                                            current).is_confident]

\* observations whose one confidence is below 0 and above 1: nothing
\* between the parsed answer and validate checks the range
ObsNegative == MkObs(AK, <<>>, 50, TRUE, <<Num(-20)>>)
ObsOver == MkObs(AK, Flop, 150, TRUE, <<Num(150)>>)

\* observations in the window, and windows: empty, one observation, full
WindowObservations ==
    {ObsHigh, ObsFlop, ObsPotDrop, ObsKings, ObsEmpty, ObsLow}
Windows ==
    {<<>>} \cup {<<p>> : p \in WindowObservations}
           \cup {<<ObsHigh, ObsFlop, p>> : p \in WindowObservations}

\* validate(game_state) on a window, with the consistency score it used
ValidateOnWindow ==
    /\ fn = NoHelperCall
    /\ \E buf \in Windows,
          game_state \in WindowObservations \cup {ObsNegative, ObsOver} :
         LET v == validate(buf, threshold, game_state)
         IN  fn' = [NoHelperCall EXCEPT
                      !.op = "validate",
                      !.window = buf, !.current = game_state,
                      !.score = _check_consistency(v.buffer),
                      !.aggregate = v.aggregate,
                      !.confidence = v.confidence,
                      !.accepted = v.is_confident]

MaxPot == 9       \* pots run from 0.00 to MaxPot cents
MaxStack == 30    \* stacks run from 0.00 to MaxStack cents

\* _get_postflop_action's spr and _bucket_spr(spr) for a stack and a pot
\* given in dollars and cents
BucketSpr ==
    /\ fn = NoHelperCall
    /\ \E stack \in 0..MaxStack, pot \in 0..MaxPot :
         fn' = [NoHelperCall EXCEPT !.op = "_bucket_spr",
                                    !.stack = stack, !.pot = pot,
                                    !.label = _bucket_spr(spr(Dec(stack), Dec(pot)))]

\* the cards flops are dealt from here, and those of longer boards
FlopDeck == {"Ah", "Kh", "Qs", "Jh", "9h", "9d", "7c", "2s"}
TurnDeck == {"Ah", "Kh", "9h", "9d", "7c"}
Rivers == {<<"Ah", "Kh", "Qh", "9h", "9d">>, <<"Ah", "Kd", "8h", "5h", "2h">>,
           <<"Ah", "Jd", "8h", "5c", "2s">>, <<"Kd", "9h", "8c", "7s", "2s">>}
TextureBoards ==
    {<<>>} \cup {<<a, b>> : a, b \in TurnDeck}
    \cup {<<a, b, c>> : a, b, c \in FlopDeck}
    \cup {<<a, b, c, d>> : a, b, c, d \in TurnDeck}
    \cup Rivers

\* classify_board_texture(board)
ClassifyBoardTexture ==
    /\ fn = NoHelperCall
    /\ \E board \in TextureBoards :
         fn' = [NoHelperCall EXCEPT !.op = "classify_board_texture",
                                    !.cards = board,
                                    !.label = classify_board_texture(board)]

(***************************************************************************)
(* ScreenCapture (capture/screen_capture.py): the change detection in      *)
(* front of the loop                                                       *)
(***************************************************************************)
VARIABLES cap   \* region, last_frame_hash, and the last call with what
                \* preceded it

Frames == {"table", "table_flop", "table_turn", "table_river", "lobby"}
Regions == {"window", "moved_window", "resized_window"}

\* ScreenCapture._calculate_hash: the MD5 digest of the frame's bytes; two
\* of the frames here have the same digest
_calculate_hash(frame) ==
    CASE frame = "table" -> "d1"
      [] frame = "table_flop" -> "d2"
      [] frame = "table_turn" -> "d3"
      [] frame = "table_river" -> "d4"
      [] frame = "lobby" -> "d1"

\* ScreenCapture.__init__
NoCheck ==
    [region |-> "window", last_frame_hash |-> "None",
     op |-> "none", grabbed |-> FALSE, hash |-> "None", returned |-> FALSE,
     before |-> "None", first |-> TRUE, shown |-> "None",
     was_first |-> TRUE, was_shown |-> "None"]

InitCapture == cap = NoCheck

\* a faulty variant: the hash is stored only by the first check
check_for_changes_keeping_first(last_frame_hash, grabbed, frame) ==
    IF ~grabbed THEN [returned |-> FALSE, last_frame_hash |-> last_frame_hash]
    ELSE LET current_hash == _calculate_hash(frame)
         IN  IF last_frame_hash = "None"
             THEN [returned |-> TRUE, last_frame_hash |-> current_hash]
             ELSE IF current_hash # last_frame_hash
             THEN [returned |-> TRUE, last_frame_hash |-> last_frame_hash]
             ELSE [returned |-> FALSE, last_frame_hash |-> last_frame_hash]

\* ScreenCapture.check_for_changes: what it returns and the stored hash
\* after it; grabbed is false when self.sct.grab raises
check_for_changes(last_frame_hash, grabbed, frame) ==
    IF ~grabbed THEN [returned |-> FALSE, last_frame_hash |-> last_frame_hash]
    ELSE LET current_hash == _calculate_hash(frame)
         IN  IF last_frame_hash = "None"
             THEN [returned |-> TRUE, last_frame_hash |-> current_hash]
             ELSE IF current_hash # last_frame_hash
             THEN [returned |-> TRUE, last_frame_hash |-> current_hash]
             ELSE [returned |-> FALSE, last_frame_hash |-> last_frame_hash]

\* one call of check_for_changes on the frame now on the screen.  first and
\* shown keep the history for the comparison: no successful check yet
\* since construction or update_region, and the hash at the last True
CheckForChanges ==
    \E grabbed \in BOOLEAN, frame \in Frames :
        LET r == check_for_changes(cap.last_frame_hash, grabbed, frame)
        IN  cap' = [cap EXCEPT
                      !.last_frame_hash = r.last_frame_hash,
                      !.op = "check_for_changes",
                      !.grabbed = grabbed,
                      !.hash = IF grabbed THEN _calculate_hash(frame) ELSE "None",
                      !.returned = r.returned,
                      !.before = cap.last_frame_hash,
                      !.was_first = cap.first,
                      !.was_shown = cap.shown,
                      !.first = IF grabbed THEN FALSE ELSE cap.first,
                      !.shown = IF r.returned THEN _calculate_hash(frame)
                                ELSE cap.shown]

\* ScreenCapture.update_region
UpdateRegion ==
    \E region \in Regions :
        cap' = [cap EXCEPT !.region = region, !.last_frame_hash = "None",
                           !.op = "update_region", !.grabbed = FALSE,
                           !.hash = "None", !.returned = FALSE,
                           !.before = cap.last_frame_hash,
                           !.was_first = cap.first, !.was_shown = cap.shown,
                           !.first = TRUE]

(***************************************************************************)
(* api/server.py: the websocket handlers and broadcast_update, coroutines  *)
(* of one event loop that give way to each other only at an await.         *)
(***************************************************************************)
VARIABLES
    active_connections,  \* the module-level list
    sockets,             \* per websocket: where its handler is, and how
                         \* often it was removed from the list
    bcast                \* the broadcast_update call in progress, if any

serverVars == <<active_connections, sockets, bcast>>

MaxBroadcasts == 2   \* broadcast_update calls per behaviour

WebSockets == {"ws1", "ws2", "ws3"}

NoBroadcast ==
    [pc |-> "idle", i |-> 0, connection |-> "", disconnected |-> <<>>,
     attempted |-> {}, stayed |-> {}, n |-> 0]

InitServer ==
    /\ active_connections = <<>>
    /\ sockets = [w \in WebSockets |-> [pc |-> "new", removed |-> 0]]
    /\ bcast = NoBroadcast

\* list.remove(x): the first occurrence is taken out
RECURSIVE ListRemove(_, _)
ListRemove(l, x) ==
    IF l = <<>> THEN <<>>
    ELSE IF l[1] = x THEN Tail(l)
    ELSE <<l[1]>> \o ListRemove(Tail(l), x)

\* `for conn in disconnected: if conn in active_connections: remove(conn)`
RECURSIVE RemoveDisconnected(_, _)
RemoveDisconnected(l, disconnected) ==
    IF disconnected = <<>> THEN l
    ELSE RemoveDisconnected(IF disconnected[1] \in Range(l)
                            THEN ListRemove(l, disconnected[1]) ELSE l,
                            Tail(disconnected))

\* a removal by a handler, as the broadcast in progress sees it
Leaves(w) == bcast' = [bcast EXCEPT !.stayed = @ \ {w}]

\* websocket_endpoint up to the first receive_text: accept and append
Connect(w) ==
    /\ sockets[w].pc = "new"
    /\ active_connections' = Append(active_connections, w)
    /\ sockets' = [sockets EXCEPT ![w].pc = "open"]
    /\ UNCHANGED bcast

\* receive_text raises WebSocketDisconnect: active_connections.remove(
\* websocket), which raises ValueError when the websocket is not in the list
Disconnect(w) ==
    /\ sockets[w].pc = "open"
    /\ IF w \in Range(active_connections)
       THEN /\ active_connections' = ListRemove(active_connections, w)
            /\ sockets' = [sockets EXCEPT ![w].pc = "closed",
                                          ![w].removed = @ + 1]
            /\ Leaves(w)
       ELSE /\ sockets' = [sockets EXCEPT ![w].pc = "ValueError"]
            /\ UNCHANGED <<active_connections, bcast>>

\* receive_text or the pong's send_text raises another exception: the
\* websocket is removed if it is in the list
Error(w) ==
    /\ sockets[w].pc = "open"
    /\ IF w \in Range(active_connections)
       THEN /\ active_connections' = ListRemove(active_connections, w)
            /\ sockets' = [sockets EXCEPT ![w].pc = "closed",
                                          ![w].removed = @ + 1]
            /\ Leaves(w)
       ELSE /\ sockets' = [sockets EXCEPT ![w].pc = "closed"]
            /\ UNCHANGED <<active_connections, bcast>>

\* the for loop takes the entry at the list iterator's index and awaits
\* its send_text
Sending(b, l) ==
    [b EXCEPT !.pc = "await", !.connection = l[b.i + 1], !.i = @ + 1,
              !.attempted = @ \cup {l[b.i + 1]}]

\* broadcast_update up to its first await: returns on an empty list, else
\* starts to iterate over active_connections
BroadcastBegin ==
    /\ bcast.pc = "idle"
    /\ bcast.n < MaxBroadcasts
    /\ bcast' = IF active_connections = <<>>
                THEN [NoBroadcast EXCEPT !.n = bcast.n + 1]
                ELSE Sending([NoBroadcast EXCEPT
                                 !.n = bcast.n + 1,
                                 !.stayed = Range(active_connections)],
                             active_connections)
    /\ UNCHANGED <<active_connections, sockets>>

\* the broadcast with the outcome of the awaited send_text noted
Noted(sent) ==
    [bcast EXCEPT !.disconnected =
                      IF sent THEN @ ELSE Append(@, bcast.connection)]

\* the iterator is exhausted: the clients that failed are removed
BroadcastEnd(b) ==
    /\ active_connections' =
           RemoveDisconnected(active_connections, b.disconnected)
    /\ sockets' = [w \in WebSockets |->
                     IF w \in Range(active_connections)
                           \ Range(active_connections')
                     THEN [sockets[w] EXCEPT !.removed = @ + 1]
                     ELSE sockets[w]]
    /\ bcast' = [b EXCEPT !.pc = "idle"]

\* the awaited send_text returns or raises; the loop goes on to the next
\* entry and awaits again, or ends and the function runs to its return
BroadcastResume ==
    /\ bcast.pc = "await"
    /\ \E sent \in BOOLEAN :
         IF bcast.i < Len(active_connections)
         THEN /\ bcast' = Sending(Noted(sent), active_connections)
              /\ UNCHANGED <<active_connections, sockets>>
         ELSE BroadcastEnd(Noted(sent))

(***************************************************************************)
VARIABLES
    app,        \* "down", "running", or "crashed" (__init__ raised)
    vision,     \* self.vision is not None
    gto,        \* self.gto is not None
    db_rows,    \* rows of the hands table for this session, oldest first
    pc,         \* "idle", "accepted" (before the GTO lookup), "emitted"
    cyc         \* the current or last loop iteration

appVars == <<app, vision, gto, db_rows, pc, cyc>>

vars == <<state_buffer, threshold, current_state, hand_number, session_id,
          calls, since_reset, vout, openai, gemini, orch, oout,
          app, vision, gto, db_rows, pc, cyc,
          preflop_ranges, postflop_buckets, loaded, treys, gout, memo, att,
          fn, cap, active_connections, sockets, bcast>>

NoCycle ==
    [events |-> <<>>, rows_before |-> 0, validate_called |-> FALSE,
     rec |-> NoRec]

InitApp ==
    /\ app = "down"
    /\ vision = FALSE
    /\ gto = FALSE
    /\ db_rows = <<>>
    /\ pc = "idle"
    /\ cyc = NoCycle

RECURSIVE Reverse(_)
Reverse(s) == IF s = <<>> THEN <<>> ELSE Append(Reverse(Tail(s)), s[1])

\* Database.get_recent_hands: SELECT * ... ORDER BY hand_number DESC LIMIT ?
get_recent_hands(rows, limit) ==
    LET r == Reverse(rows)
    IN  SubSeq(r, 1, IF Len(r) > limit THEN limit ELSE Len(r))

\* Database.log_decision: the INSERT names neither outcome nor amount_won
log_decision(rows, hand_no) == Append(rows, Row(hand_no, NoNum))

\* a faulty variant: the gate lets every observation through
PassesGate_open(is_confident) == TRUE

\* `if not is_confident:` of _process_frame: the cycle goes on to the GTO
\* baseline and the LLM only when this holds
PassesGate(is_confident) == is_confident

\* what _main_loop's `except Exception` adds when _process_frame raises
Caught(events) == events \o <<"raised", "alert:error">>

\* LLMPokerAssistant.__init__: vision and GTO engine may fail to load and are
\* then None; LLMOrchestrator(...) is built outside any try.  Here a client
\* whose library and key are present is always built (ConstructOrchestrator
\* also covers the constructor that fails).
Start ==
    /\ app = "down"
    /\ vision' \in BOOLEAN
    /\ gto' \in BOOLEAN
    /\ \E olib, okey, glib, gkey \in BOOLEAN :
         LET oa == FallbackInit(olib, okey, TRUE)
             ga == FallbackInit(glib, gkey, TRUE)
             failed == \/ Fallback_is_available(oa) = "AttributeError"
                       \/ Fallback_is_available(ga) = "AttributeError"
         IN  /\ openai' = oa
             /\ gemini' = ga
             /\ orch' = IF failed THEN "init_failed" ELSE "ready"
             /\ app' = IF failed THEN "crashed" ELSE "running"
    /\ UNCHANGED <<state_buffer, threshold, current_state, hand_number,
                   session_id, calls, since_reset, vout, oout, db_rows, pc,
                   cyc>>

CycleProbes == {"rc0", "FileNotFoundError"}

CycleEnvironments ==
    {r \in Environments :
        \A p \in Range(providers) :
            r[p] \in {Failure("timeout"),
                      Object("RAISE", Some(87), Some(450), Alts)}}

CycleBaselines == {Baseline("RAISE", Some(3), 85)}

\* steps 3-4 of _process_frame once process_vision_output returned r
Gate(r) ==
    /\ pc' = IF PassesGate(r.is_confident) THEN "accepted" ELSE "idle"
    /\ cyc' = [events |-> <<"capture", "vision", "validate">> \o
                   (IF PassesGate(r.is_confident)
                    THEN <<"game_state_update">>
                    ELSE <<"alert:low_confidence">>),
               rows_before |-> Len(db_rows),
               validate_called |-> TRUE, rec |-> NoRec]

\* _process_frame, steps 1-4: capture, vision, process_vision_output, and
\* either the low-confidence alert or the game-state update
Observe ==
    /\ app = "running"
    /\ pc = "idle"
    /\ calls < MaxCycles
    /\ \E frame_ok \in BOOLEAN, o \in VisionOutputs :
         IF ~frame_ok \/ ~vision
         THEN /\ cyc' = [NoCycle EXCEPT
                           !.events = IF ~frame_ok THEN <<"capture_failed">>
                                      ELSE <<"capture", "no_vision">>,
                           !.rows_before = Len(db_rows)]
              /\ UNCHANGED <<state_buffer, current_state, hand_number,
                             since_reset, calls, vout, pc>>
         ELSE /\ ManagerReturns(Stamp(o),
                     process_vision_output(state_buffer, threshold,
                         current_state, hand_number, Stamp(o)))
              /\ Gate(vout')
    /\ UNCHANGED <<threshold, session_id, openai, gemini, orch, oout,
                   app, vision, gto, db_rows>>

\* steps 6-7 of _process_frame once llm.get_recommendation ended as g
Emit(g, gto_baseline, hand_history) ==
    /\ oout' = [outcome |-> g.outcome, error |-> g.error,
                rec |-> g.rec, trace |-> g.trace,
                baseline |-> gto_baseline, history |-> hand_history]
    /\ IF g.outcome = "raised"
       THEN /\ cyc' = [cyc EXCEPT !.events =
                          Caught(@ \o <<"gto_lookup", "get_recent_hands",
                                        "llm">>)]
            /\ pc' = "idle"
       ELSE /\ cyc' = [cyc EXCEPT
                         !.events = @ \o <<"gto_lookup", "get_recent_hands",
                                           "llm", "send_recommendation">>,
                         !.rec = g.rec]
            /\ pc' = "emitted"

\* a faulty variant: an exception of the GTO lookup is not caught by the
\* loop and ends it
Decide_uncaught ==
    /\ pc = "accepted"
    /\ IF ~gto
       THEN /\ cyc' = [cyc EXCEPT !.events = @ \o <<"no_gto">>]
            /\ pc' = "idle"
            /\ UNCHANGED <<oout, app>>
       ELSE \E lookup_ok \in BOOLEAN :
              IF ~lookup_ok
              THEN /\ cyc' = [cyc EXCEPT !.events =
                                 @ \o <<"gto_lookup", "raised">>]
                   /\ pc' = "idle"
                   /\ app' = "crashed"
                   /\ UNCHANGED oout
              ELSE /\ \E probe \in CycleProbes, reply \in CycleEnvironments,
                          gto_baseline \in CycleBaselines :
                         Emit(get_recommendation(openai, gemini, probe, reply,
                                  vout.obs[1], gto_baseline,
                                  get_recent_hands(db_rows, 5)),
                              gto_baseline, get_recent_hands(db_rows, 5))
                   /\ UNCHANGED app
    /\ UNCHANGED <<state_buffer, threshold, current_state, hand_number,
                   session_id, calls, since_reset, vout, openai, gemini, orch,
                   vision, gto, db_rows>>

\* _process_frame, steps 5-7: GTO baseline, recent hands,
\* llm.get_recommendation, send_recommendation.  self.gto.get_recommendation
\* is called outside any try of _process_frame: a lookup that raises (a
\* table entry that is no mapping, the IndexError of classify_board_texture)
\* reaches the `except Exception` of _main_loop
Decide ==
    /\ pc = "accepted"
    /\ IF ~gto
       THEN /\ cyc' = [cyc EXCEPT !.events = @ \o <<"no_gto">>]
            /\ pc' = "idle"
            /\ UNCHANGED oout
       ELSE \E lookup_ok \in BOOLEAN :
              IF ~lookup_ok
              THEN /\ cyc' = [cyc EXCEPT !.events =
                                 Caught(@ \o <<"gto_lookup">>)]
                   /\ pc' = "idle"
                   /\ UNCHANGED oout
              ELSE \E probe \in CycleProbes, reply \in CycleEnvironments,
                      gto_baseline \in CycleBaselines :
                     Emit(get_recommendation(openai, gemini, probe, reply,
                              vout.obs[1], gto_baseline,
                              get_recent_hands(db_rows, 5)),
                          gto_baseline, get_recent_hands(db_rows, 5))
    /\ UNCHANGED <<state_buffer, threshold, current_state, hand_number,
                   session_id, calls, since_reset, vout, openai, gemini, orch,
                   app, vision, gto, db_rows>>

\* a faulty variant: a failed insert also discards the recommendation
Record_losing_rec ==
    /\ pc = "emitted"
    /\ \E db_ok \in BOOLEAN :
         IF db_ok
         THEN /\ db_rows' = log_decision(db_rows, hand_number)
              /\ cyc' = [cyc EXCEPT !.events = @ \o <<"log_decision">>]
         ELSE /\ cyc' = [cyc EXCEPT !.events = Caught(@), !.rec = NoRec]
              /\ UNCHANGED db_rows
    /\ pc' = "idle"
    /\ UNCHANGED <<state_buffer, threshold, current_state, hand_number,
                   session_id, calls, since_reset, vout, openai, gemini, orch,
                   oout, app, vision, gto>>

\* _process_frame, step 8: db.log_decision, which may fail
Record ==
    /\ pc = "emitted"
    /\ \E db_ok \in BOOLEAN :
         IF db_ok
         THEN /\ db_rows' = log_decision(db_rows, hand_number)
              /\ cyc' = [cyc EXCEPT !.events = @ \o <<"log_decision">>]
         ELSE /\ cyc' = [cyc EXCEPT !.events = Caught(@)]
              /\ UNCHANGED db_rows
    /\ pc' = "idle"
    /\ UNCHANGED <<state_buffer, threshold, current_state, hand_number,
                   session_id, calls, since_reset, vout, openai, gemini, orch,
                   oout, app, vision, gto>>

(***************************************************************************)
(* Specifications                                                          *)
(***************************************************************************)
\* where the cache is not looked up the build of treys makes no difference
InitAll ==
    /\ InitVal /\ InitOrch /\ InitApp /\ InitCache /\ ~treys.available
    /\ InitAttempts /\ InitFn /\ InitCapture /\ InitServer

\* the validator as GameStateManager() builds it: threshold=0.70
InitDefault == InitAll /\ threshold = Dec(DefaultThreshold)

\* the validator on its own, driven as a unit
NextValidator ==
    \/ \E o \in ValidatorObservations :
          Validate(o) /\ UNCHANGED orchVars /\ UNCHANGED appVars /\ UNCHANGED cacheVars /\ UNCHANGED attemptVars /\ UNCHANGED fn /\ UNCHANGED cap /\ UNCHANGED serverVars
    \/ Reset /\ UNCHANGED orchVars /\ UNCHANGED appVars /\ UNCHANGED cacheVars /\ UNCHANGED attemptVars /\ UNCHANGED fn /\ UNCHANGED cap /\ UNCHANGED serverVars
SpecValidator == InitAll /\ [][NextValidator]_vars

\* the state manager with its validator
NextManager ==
    \/ \E o \in ManagerObservations :
          ProcessVisionOutput(o) /\ UNCHANGED orchVars /\ UNCHANGED appVars /\ UNCHANGED cacheVars /\ UNCHANGED attemptVars /\ UNCHANGED fn /\ UNCHANGED cap /\ UNCHANGED serverVars
    \/ ResetSession /\ UNCHANGED orchVars /\ UNCHANGED appVars /\ UNCHANGED cacheVars /\ UNCHANGED attemptVars /\ UNCHANGED fn /\ UNCHANGED cap /\ UNCHANGED serverVars
SpecManager == InitAll /\ [][NextManager]_vars

\* the state manager fed one hand after another: constant hole cards and
\* pot, boards of 0, 3, 4, 0, 3 cards, every field confidence of an
\* observation at one level at or above the default threshold
BoardPlan == <<<<>>, Flop, Turn, <<>>, Flop>>
PlanLevels == {75, 80, 85, 90, 95, 100}
PlannedObs(i, level) ==
    MkObs(AK, BoardPlan[i], 50, TRUE,
          <<Num(level), Num(level), Num(level), Num(level)>>)

FeedPlanned ==
    /\ calls < Len(BoardPlan)
    /\ \E level \in PlanLevels :
          ProcessVisionOutput(PlannedObs(calls + 1, level))

NextBoards == FeedPlanned /\ UNCHANGED orchVars /\ UNCHANGED appVars /\ UNCHANGED cacheVars /\ UNCHANGED attemptVars /\ UNCHANGED fn /\ UNCHANGED cap /\ UNCHANGED serverVars
SpecBoards == InitDefault /\ [][NextBoards]_vars

\* the state manager fed hands that end and begin, one of them with a
\* confidence entry that is no number
NextBoundary ==
    \E o \in BoundaryObservations :
       ProcessVisionOutput(o) /\ UNCHANGED orchVars /\ UNCHANGED appVars /\ UNCHANGED cacheVars /\ UNCHANGED attemptVars /\ UNCHANGED fn /\ UNCHANGED cap /\ UNCHANGED serverVars
SpecBoundary == InitDefault /\ [][NextBoundary]_vars

\* the policy cache with the decision engine on top of it
NextCache ==
    \/ LoadFromDisk /\ UNCHANGED valVars /\ UNCHANGED orchVars /\ UNCHANGED appVars
         /\ UNCHANGED attemptVars /\ UNCHANGED fn /\ UNCHANGED cap /\ UNCHANGED serverVars
    \/ GTOLookup /\ UNCHANGED valVars /\ UNCHANGED orchVars /\ UNCHANGED appVars
         /\ UNCHANGED attemptVars /\ UNCHANGED fn /\ UNCHANGED cap /\ UNCHANGED serverVars
InitLookups ==
    /\ InitVal /\ InitOrch /\ InitApp /\ InitCache /\ InitAttempts /\ InitFn /\ InitCapture /\ InitServer
    /\ threshold = Dec(DefaultThreshold)
SpecCache == InitLookups /\ [][NextCache]_vars

\* the provider attempts of the orchestrator in time
NextAttempts ==
    \/ ConstructOrchestrator /\ UNCHANGED att /\ UNCHANGED valVars /\ UNCHANGED appVars /\ UNCHANGED cacheVars /\ UNCHANGED fn /\ UNCHANGED cap /\ UNCHANGED serverVars
    \/ BeginCall /\ UNCHANGED valVars /\ UNCHANGED appVars /\ UNCHANGED cacheVars /\ UNCHANGED fn /\ UNCHANGED cap /\ UNCHANGED serverVars
    \/ SelectProvider /\ UNCHANGED valVars /\ UNCHANGED appVars /\ UNCHANGED cacheVars /\ UNCHANGED fn /\ UNCHANGED cap /\ UNCHANGED serverVars
    \/ Tick /\ UNCHANGED valVars /\ UNCHANGED appVars /\ UNCHANGED cacheVars /\ UNCHANGED fn /\ UNCHANGED cap /\ UNCHANGED serverVars
    \/ Answer /\ UNCHANGED valVars /\ UNCHANGED appVars /\ UNCHANGED cacheVars /\ UNCHANGED fn /\ UNCHANGED cap /\ UNCHANGED serverVars
    \/ Expire /\ UNCHANGED valVars /\ UNCHANGED appVars /\ UNCHANGED cacheVars /\ UNCHANGED fn /\ UNCHANGED cap /\ UNCHANGED serverVars
    \/ EndCall /\ UNCHANGED valVars /\ UNCHANGED appVars /\ UNCHANGED cacheVars /\ UNCHANGED fn /\ UNCHANGED cap /\ UNCHANGED serverVars
SpecAttempts == InitDefault /\ [][NextAttempts]_vars

\* the helper functions on their own
NextFunctions ==
    \/ NormalizeHand /\ UNCHANGED valVars /\ UNCHANGED orchVars /\ UNCHANGED appVars /\ UNCHANGED cacheVars /\ UNCHANGED attemptVars /\ UNCHANGED cap /\ UNCHANGED serverVars
    \/ ClassifyBoardTexture /\ UNCHANGED valVars /\ UNCHANGED orchVars /\ UNCHANGED appVars /\ UNCHANGED cacheVars /\ UNCHANGED attemptVars /\ UNCHANGED cap /\ UNCHANGED serverVars
    \/ BucketSpr /\ UNCHANGED valVars /\ UNCHANGED orchVars /\ UNCHANGED appVars /\ UNCHANGED cacheVars /\ UNCHANGED attemptVars /\ UNCHANGED cap /\ UNCHANGED serverVars
    \/ CheckBoard /\ UNCHANGED valVars /\ UNCHANGED orchVars /\ UNCHANGED appVars /\ UNCHANGED cacheVars /\ UNCHANGED attemptVars /\ UNCHANGED cap /\ UNCHANGED serverVars
    \/ CheckHoleCards /\ UNCHANGED valVars /\ UNCHANGED orchVars /\ UNCHANGED appVars /\ UNCHANGED cacheVars /\ UNCHANGED attemptVars /\ UNCHANGED cap /\ UNCHANGED serverVars
    \/ ValidateGameState /\ UNCHANGED valVars /\ UNCHANGED orchVars /\ UNCHANGED appVars /\ UNCHANGED cacheVars /\ UNCHANGED attemptVars /\ UNCHANGED cap /\ UNCHANGED serverVars
    \/ ValidateOnWindow /\ UNCHANGED valVars /\ UNCHANGED orchVars /\ UNCHANGED appVars /\ UNCHANGED cacheVars /\ UNCHANGED attemptVars /\ UNCHANGED cap /\ UNCHANGED serverVars
SpecFunctions == InitDefault /\ [][NextFunctions]_vars

\* the change detection on its own
NextCapture ==
    \/ CheckForChanges /\ UNCHANGED valVars /\ UNCHANGED orchVars /\ UNCHANGED appVars /\ UNCHANGED cacheVars /\ UNCHANGED attemptVars /\ UNCHANGED fn /\ UNCHANGED serverVars
    \/ UpdateRegion /\ UNCHANGED valVars /\ UNCHANGED orchVars /\ UNCHANGED appVars /\ UNCHANGED cacheVars /\ UNCHANGED attemptVars /\ UNCHANGED fn /\ UNCHANGED serverVars
SpecCapture == InitDefault /\ [][NextCapture]_vars

\* the websocket handlers and the broadcasts of the API server
NextServer ==
    \/ \E w \in WebSockets : Connect(w) /\ UNCHANGED valVars /\ UNCHANGED orchVars /\ UNCHANGED appVars /\ UNCHANGED cacheVars /\ UNCHANGED attemptVars /\ UNCHANGED fn /\ UNCHANGED cap
    \/ \E w \in WebSockets : Disconnect(w) /\ UNCHANGED valVars /\ UNCHANGED orchVars /\ UNCHANGED appVars /\ UNCHANGED cacheVars /\ UNCHANGED attemptVars /\ UNCHANGED fn /\ UNCHANGED cap
    \/ \E w \in WebSockets : Error(w) /\ UNCHANGED valVars /\ UNCHANGED orchVars /\ UNCHANGED appVars /\ UNCHANGED cacheVars /\ UNCHANGED attemptVars /\ UNCHANGED fn /\ UNCHANGED cap
    \/ BroadcastBegin /\ UNCHANGED valVars /\ UNCHANGED orchVars /\ UNCHANGED appVars /\ UNCHANGED cacheVars /\ UNCHANGED attemptVars /\ UNCHANGED fn /\ UNCHANGED cap
    \/ BroadcastResume /\ UNCHANGED valVars /\ UNCHANGED orchVars /\ UNCHANGED appVars /\ UNCHANGED cacheVars /\ UNCHANGED attemptVars /\ UNCHANGED fn /\ UNCHANGED cap
SpecServer == InitDefault /\ [][NextServer]_vars

\* the orchestrator on its own
NextOrch ==
    \/ ConstructOrchestrator /\ UNCHANGED valVars /\ UNCHANGED appVars /\ UNCHANGED cacheVars /\ UNCHANGED attemptVars /\ UNCHANGED fn /\ UNCHANGED cap /\ UNCHANGED serverVars
    \/ GetRecommendation /\ UNCHANGED valVars /\ UNCHANGED appVars /\ UNCHANGED cacheVars /\ UNCHANGED attemptVars /\ UNCHANGED fn /\ UNCHANGED cap /\ UNCHANGED serverVars
    \/ Release /\ UNCHANGED valVars /\ UNCHANGED appVars /\ UNCHANGED cacheVars /\ UNCHANGED attemptVars /\ UNCHANGED fn /\ UNCHANGED cap /\ UNCHANGED serverVars
SpecOrch == InitDefault /\ [][NextOrch]_vars

\* the application
Next ==
    \/ Start /\ UNCHANGED cacheVars /\ UNCHANGED attemptVars /\ UNCHANGED fn /\ UNCHANGED cap /\ UNCHANGED serverVars
    \/ Observe /\ UNCHANGED cacheVars /\ UNCHANGED attemptVars /\ UNCHANGED fn /\ UNCHANGED cap /\ UNCHANGED serverVars
    \/ Decide /\ UNCHANGED cacheVars /\ UNCHANGED attemptVars /\ UNCHANGED fn /\ UNCHANGED cap /\ UNCHANGED serverVars
    \/ Record /\ UNCHANGED cacheVars /\ UNCHANGED attemptVars /\ UNCHANGED fn /\ UNCHANGED cap /\ UNCHANGED serverVars
Spec == InitDefault /\ [][Next]_vars

(***************************************************************************)
(* Properties.  Helpers first.                                             *)
(***************************************************************************)
Min(a, b) == IF a < b THEN a ELSE b

\* the observation the last validate call was given
LastObs == vout.obs[1]

\* the window holds n observations whose arrival stamps are the n
\* consecutive stamps ending at the latest validate call
HoldsLast(n) ==
    /\ Len(state_buffer) = n
    /\ \A i \in 1..n : state_buffer[i].arrival = calls - n + i

\* every confidence field of o is a number, there is one, all are >= thr
AllFieldsAtLeast(o, thr) ==
    /\ o.has_conf
    /\ o.confidence # <<>>
    /\ \A i \in 1..Len(o.confidence) :
          o.confidence[i].k = "num" /\ FGe(o.confidence[i].v, thr)

\* C8 (as claimed): with an empty history and every field confidence at or
\* above the threshold, validate accepts and returns the aggregate.
C8_AcceptsAtOrAboveThreshold ==
    (/\ vout.op = "validate"
     /\ vout.n_before = 0
     /\ AllFieldsAtLeast(LastObs, threshold))
    => (vout.is_confident /\ vout.confidence = vout.aggregate)

C10_WindowIsLastOfAllCalls == HoldsLast(Min(calls, buffer_size))

\* C10 (amended): the window holds exactly the last min(j, N) observations
\* given to validate since the window was last reset (j of them), in
\* arrival order, so never more than N and the oldest is the one evicted.
C10_WindowIsLastSinceReset ==
    /\ HoldsLast(Min(since_reset, buffer_size))
    /\ Len(state_buffer) <= buffer_size

\* C10's case: a hand began (the window was reset), and since then more
\* observations arrived than the window holds, so the oldest was evicted
C10_Witness ==
    /\ hand_number >= 1
    /\ since_reset > buffer_size
    /\ Len(state_buffer) = buffer_size
    /\ state_buffer[1].arrival = calls - buffer_size + 1
    /\ vout.is_confident

\* the events of the last get_recommendation call
IsCheck(e) == e.ev = "is_available"
IsAttempt(e) == e.ev = "attempt"
IsSubprocess(e) == e.ev = "subprocess"
Checks == SelectSeq(oout.trace, IsCheck)
Attempts == SelectSeq(oout.trace, IsAttempt)
Produced(e) == e.ev = "attempt" /\ e.res = "result"

\* the call returned what a provider's reply produced
ProviderProduced ==
    /\ oout.outcome = "returned"
    /\ oout.trace # <<>>
    /\ Produced(oout.trace[Len(oout.trace)])

Winner == oout.trace[Len(oout.trace)]

\* unparseable content, or a decoded object without the action field
StructurallyInvalid(reply) ==
    /\ reply.kind = "text"
    /\ \/ reply.json \in {"none", "invalid"}
       \/ reply.json = "object" /\ reply.action = "absent"

\* C1 (as claimed): get_recommendation always returns a Recommendation and
\* never raises, whatever the history rows and the providers' outcomes.
C1_NeverRaises == oout.outcome # "raised"

\* C2: providers are consulted strictly in the order claude_cli, openai,
\* gemini; an unavailable provider is never attempted; the recommendation
\* comes from the first available provider that returns a valid result, and
\* nothing after it is checked or attempted.
C2_PriorityOrder ==
    LET t == oout.trace
        order == <<"claude_cli", "openai", "gemini">>
    IN  /\ Len(Checks) <= 3
        /\ \A i \in 1..Len(Checks) : Checks[i].p = order[i]
        /\ \A j \in 1..Len(t) :
              /\ IsAttempt(t[j]) =>
                    /\ j > 1
                    /\ IsCheck(t[j - 1])
                    /\ t[j - 1].p = t[j].p
                    /\ t[j - 1].res = "True"
              /\ (IsCheck(t[j]) /\ t[j].res = "True") =>
                    j < Len(t) /\ IsAttempt(t[j + 1])
              /\ Produced(t[j]) => j = Len(t)
        /\ ProviderProduced =>
              /\ oout.rec.action = <<Winner.reply.action>>
              /\ oout.rec.alternatives = Winner.reply.alts

\* C2's case: the first provider is unavailable, the second is attempted and
\* fails, the third produces the recommendation
C2_Witness ==
    /\ ProviderProduced
    /\ Len(Checks) = 3
    /\ Checks[1].res = "False"
    /\ Len(Attempts) = 2
    /\ Attempts[1].p = "openai" /\ Attempts[1].res = "None"
    /\ Winner.p = "gemini"

\* C3 (as claimed): when no provider produces a result the baseline-only
\* recommendation is returned, with llm_provider "baseline_only",
\* fallback_used true, the baseline's confidence and no alternatives; and
\* when no provider was available, without any attempt or I/O.
C3_BaselineOnly ==
    (oout.outcome = "returned" /\ ~ProviderProduced) =>
        /\ oout.rec.llm_provider = "baseline_only"
        /\ oout.rec.fallback_used
        /\ oout.rec.confidence = oout.baseline.confidence
        /\ oout.rec.alternatives = <<>>
        /\ Attempts = <<>> => SelectSeq(oout.trace, IsSubprocess) = <<>>

\* C4: a recommendation produced by a provider names that provider in
\* llm_provider, and fallback_used is true iff it is not the first provider.
C4_ProviderRecorded ==
    ProviderProduced =>
        /\ oout.rec.llm_provider = Winner.p
        /\ oout.rec.fallback_used = (Winner.p # "claude_cli")

\* C4's case: only the third provider is available, and it succeeds
C4_Witness ==
    /\ ProviderProduced
    /\ Len(Checks) = 3
    /\ Checks[1].res = "False" /\ Checks[2].res = "False"
    /\ Len(Attempts) = 1
    /\ oout.rec.llm_provider = "gemini"
    /\ oout.rec.fallback_used

\* C5 (as claimed): for each provider a structurally invalid reply yields
\* no result, like a timeout, and never an exception.
C5_InvalidReplyYieldsNothing ==
    /\ \A j \in 1..Len(oout.trace) :
          (IsAttempt(oout.trace[j]) /\ StructurallyInvalid(oout.trace[j].reply))
              => oout.trace[j].res = "None"
    /\ oout.error # "ValidationError"
          \/ ~StructurallyInvalid(oout.trace[Len(oout.trace)].reply)

\* what a complete accepted cycle does, in order
FullCycle ==
    <<"capture", "vision", "validate", "game_state_update", "gto_lookup",
      "get_recent_hands", "llm", "send_recommendation", "log_decision">>

\* C6 (as claimed): an accepted observation leads, in its cycle, to a
\* baseline lookup, an emitted recommendation and exactly one appended
\* record before the coordinator is idle again.
C6_AcceptedCycleCompletes ==
    (cyc.validate_called /\ vout.is_confident /\ pc = "idle") =>
        /\ cyc.events = FullCycle
        /\ Len(db_rows) = cyc.rows_before + 1

\* C7: a rejected observation gets a low-confidence notice and the cycle
\* is over: no baseline lookup, no orchestrator call, no record.
C7_RejectedCycleStops ==
    (cyc.validate_called /\ ~vout.validated) =>
        /\ pc = "idle"
        /\ cyc.events =
             <<"capture", "vision", "validate", "alert:low_confidence">>
        /\ cyc.rec = NoRec
        /\ Len(db_rows) = cyc.rows_before

\* C7's case: after a recorded decision, an observation is rejected
C7_Witness ==
    /\ cyc.validate_called
    /\ ~vout.validated
    /\ LastObs.confidence = ObsLow.confidence
    /\ Len(db_rows) >= 1
    /\ cyc.events[Len(cyc.events)] = "alert:low_confidence"

\* the same observation object, whenever it was handed in
SameObservation(a, b) == [a EXCEPT !.arrival = 0] = [b EXCEPT !.arrival = 0]

\* the last validate call was given the observation of the call before it
ValidatedTwice ==
    /\ vout.op = "validate"
    /\ Len(state_buffer) >= 2
    /\ SameObservation(state_buffer[Len(state_buffer)],
                       state_buffer[Len(state_buffer) - 1])

\* C11 (as claimed): validating the same observation twice in a row gives,
\* on the second call, 1.0 from the hole-card, board and pot checks, so
\* consistency 1.0 and a final confidence equal to the aggregate.
C11_SameTwiceIsConsistent ==
    ValidatedTwice =>
        /\ _check_hole_cards_consistency(state_buffer[Len(state_buffer)],
               state_buffer[Len(state_buffer) - 1]) = One
        /\ _check_board_consistency(state_buffer[Len(state_buffer)],
               state_buffer[Len(state_buffer) - 1]) = One
        /\ _check_pot_consistency(state_buffer[Len(state_buffer)],
               state_buffer[Len(state_buffer) - 1]) = One
        /\ _check_consistency(state_buffer) = One
        /\ vout.confidence = vout.aggregate

\* a process_vision_output call just returned an accepted observation
Tracked == vout'.op = "process" /\ calls' = calls + 1 /\ vout'.is_confident

\* one of the four boundary rules holds for new against the previous
\* accepted state prev (<<>> when there is none)
BoundaryRule(prev, new) ==
    \/ prev = <<>>
    \/ /\ prev # <<>>
       /\ \/ Len(new.board) < Len(prev[1].board)
          \/ 2 * new.pot < prev[1].pot
          \/ /\ new.hole_cards # <<>>
             /\ prev[1].hole_cards # <<>>
             /\ \E c \in Range(new.hole_cards) \cup Range(prev[1].hole_cards) :
                   ~(c \in Range(new.hole_cards)
                       /\ c \in Range(prev[1].hole_cards))

\* C12: an observation that reaches the episode tracker is flagged as a new
\* episode iff there is no previous state, or the board count decreased, or
\* the pot is below half the previous pot, or the hole-card set changed with
\* both sets non-empty; a flagged boundary adds exactly 1 to the hand number
\* and clears the window, and without one neither happens.
C12_BoundaryRules ==
    [][Tracked =>
         /\ vout'.new_hand <=> BoundaryRule(current_state, vout'.game_state[1])
         /\ vout'.new_hand =>
               hand_number' = hand_number + 1 /\ state_buffer' = <<>>
         /\ ~vout'.new_hand =>
               /\ hand_number' = hand_number
               /\ state_buffer' # <<>>
               /\ state_buffer'[Len(state_buffer')] = vout'.obs[1]]_vars

\* C12's case: within a hand, at an unchanged board, the pot falls below
\* half and a boundary is flagged
C12_Witness ==
    /\ vout.op = "process"
    /\ vout.new_hand
    /\ vout.n_before >= 1
    /\ SameObservation(LastObs, ObsPotDrop)
    /\ hand_number >= 2
    /\ state_buffer = <<>>

\* C13 (as claimed): feeding boards of 0, 3, 4, 0, 3 cards with constant
\* hole cards and pot and confidences at or above the threshold to a fresh
\* manager flags a new episode exactly at indices 0 and 3.
C13_BoundariesAtZeroAndThree ==
    (/\ vout.op = "process"
     /\ LastObs.board = BoardPlan[LastObs.arrival]
     /\ AllFieldsAtLeast(LastObs, threshold))
    => (vout.new_hand <=> LastObs.arrival \in {1, 4})

\* a process_vision_output call just returned
Processed == vout'.op = "process" /\ calls' = calls + 1

\* C14 (as claimed): the first observation given to process_vision_output
\* after construction, and after reset_session, counts as a new episode
\* whatever its fields: the hand number becomes 1 on it.
C14_FirstGivenStartsEpisode ==
    [][(vout.op \in {"none", "reset_session"} /\ Processed) =>
          (vout'.new_hand /\ hand_number' = 1)]_vars

\* C14 (amended): after construction, and after reset_session, the first
\* observation that process_vision_output accepts counts as a new episode
\* whatever its board, pot and hole cards, and the hand number becomes 1 on
\* it; observations rejected before it leave the hand number at 0.
C14_FirstAcceptedStartsEpisode ==
    [][(hand_number = 0 /\ Processed) =>
          IF vout'.is_confident
          THEN vout'.new_hand /\ hand_number' = 1
          ELSE ~vout'.new_hand /\ hand_number' = 0]_vars

\* C14's case: in a second session an observation is rejected first, and
\* the next one, accepted, opens hand 1
C14_Witness ==
    /\ session_id >= 2
    /\ vout.op = "process"
    /\ vout.n_before >= 1
    /\ vout.is_confident /\ vout.new_hand
    /\ hand_number = 1

\* C15: the hand number starts at 0, never decreases in and grows by at most
\* 1 per process_vision_output call, and only reset_session sets it back to
\* 0; the session identifier changes in reset_session only.
C15_CountersMonotonic ==
    /\ hand_number = 0
    /\ [][/\ Processed =>
               /\ hand_number' \in {hand_number, hand_number + 1}
               /\ session_id' = session_id
          /\ hand_number' < hand_number =>
               vout'.op = "reset_session" /\ hand_number' = 0
          /\ session_id' # session_id => vout'.op = "reset_session"]_vars

\* C15's case: a second session that has reached its second hand
C15_Witness ==
    /\ session_id >= 2
    /\ hand_number >= 2
    /\ vout.op = "process"
    /\ vout.new_hand
    /\ vout.n_before >= 1


(***************************************************************************)
(* Policy cache                                                            *)
(***************************************************************************)
LookedUp == gout.op = "lookup"
Preflop == LookedUp /\ loaded /\ gout.input.board = <<>>
Postflop == LookedUp /\ loaded /\ gout.input.board # <<>>
\* the hand class of the last lookup, and whether the range of its position
\* stores it
HandClass == normalize_hand(gout.input.hole_cards)
InRange ==
    /\ HandClass # NoHand
    /\ gout.input.position \in DOMAIN preflop_ranges
    /\ HandClass \in DOMAIN preflop_ranges[gout.input.position]
StoredHand == preflop_ranges[gout.input.position][HandClass]
\* None for a key the stored entry does not hold
Carried(v) == IF v.k = "absent" THEN NoNum ELSE v

\* C16: a lookup never raises: get_action returns a dict and
\* get_recommendation returns a GTOAction, whatever the position, the hole
\* cards, the board, the pot, the stack and the tables
C16_LookupNeverRaises ==
    LookedUp => ~gout.dict.raised /\ ~gout.rec.raised

\* C17: a preflop lookup whose hand class the range of the position stores
\* returns the stored action and sizing with confidence 0.85 whatever
\* confidence is stored, from get_action and from get_recommendation;
\* [Ah, Kd] on BTN with (BTN, AKo) = RAISE 3.0 gives RAISE, 3.0, 0.85
C17_PreflopHitTagged ==
    (Preflop /\ InRange) =>
        /\ ~gout.dict.raised
        /\ gout.dict.value.action = StoredHand.action
        /\ gout.dict.value.sizing = StoredHand.sizing
        /\ gout.dict.value.confidence = Some(85)
        /\ ~gout.rec.raised
        /\ gout.rec.value.action = StoredHand.action
        /\ gout.rec.value.sizing = Carried(StoredHand.sizing)
        /\ gout.rec.value.confidence = 85
        /\ (gout.input = Lookup("BTN", AK, <<>>, 0, 1000) =>
               /\ gout.rec.value.action = "RAISE"
               /\ gout.rec.value.sizing = Some(3))
C17_Witness ==
    /\ Preflop /\ InRange
    /\ gout.input = Lookup("BTN", AK, <<>>, 0, 1000)
    /\ StoredHand.confidence = Some(30)
    /\ gout.rec.value = GTOAction("RAISE", Some(3), 85, "top 15%")

\* C18: a preflop lookup on a loaded cache whose hand is not in the stored
\* range of the position gives FOLD, sizing 0, confidence 0.90
C18_PreflopMissFolds ==
    (Preflop /\ ~InRange) =>
        /\ ~gout.dict.raised
        /\ gout.dict.value = Entry("FOLD", Some(0), Some(90), NoKey)
        /\ gout.rec = Returned(GTOAction("FOLD", Some(0), 90, PyNone))

\* the triple of the last lookup
Triple ==
    <<calculate_hand_strength(treys, gout.input.hole_cards, gout.input.board),
      classify_board_texture(gout.input.board),
      SprBucket(gout.input.stack, gout.input.pot)>>

\* C19: a postflop lookup on a loaded cache gives the stored entry with
\* confidence 0.75 when its triple is a key of the table, and CHECK, sizing
\* 0, confidence 0.60 when it is not
C19_PostflopHitOrCheck ==
    Postflop =>
        /\ ~gout.dict.raised
        /\ gout.dict.value =
              IF Triple \in DOMAIN postflop_buckets
              THEN [postflop_buckets[Triple] EXCEPT !.confidence = Some(75)]
              ELSE Entry("CHECK", Some(0), Some(60), NoKey)

\* C20: a lookup leaves preflop_ranges, postflop_buckets (the stored
\* entries and their confidence fields) and loaded as they were, and gives
\* what an earlier lookup of the same input gave, whichever lookups came in
\* between
C20_LookupsLeaveCache ==
    [][gout'.op = "lookup" =>
          /\ preflop_ranges' = preflop_ranges
          /\ postflop_buckets' = postflop_buckets
          /\ loaded' = loaded
          /\ (memo.op = "lookup" /\ memo.input = gout'.input =>
                 gout'.dict = memo.dict /\ gout'.rec = memo.rec)]_vars
C20_Witness ==
    /\ Preflop /\ InRange
    /\ memo.op = "lookup" /\ memo.others
    /\ memo.input = gout.input /\ memo.dict = gout.dict
    /\ StoredHand.confidence = Some(30)
    /\ gout.dict.value.confidence = Some(85)

Loaded == gout.op = "load_from_disk"
\* C21: a load with one or both files missing does not raise and sets
\* loaded (what is_loaded() returns); at startup the missing table is empty;
\* every later lookup in an empty table is a miss: FOLD, 0, 0.90 preflop and
\* CHECK, 0, 0.60 postflop
C21_MissingFilesDegrade ==
    /\ (Loaded /\ "missing" \in {gout.preflop, gout.postflop}
           /\ gout.postflop # "corrupt") => (~gout.raised /\ loaded)
    /\ (Loaded /\ gout.fresh /\ gout.preflop = "missing") => preflop_ranges = <<>>
    /\ (Loaded /\ gout.fresh /\ gout.postflop = "missing") => postflop_buckets = <<>>
    /\ (Preflop /\ preflop_ranges = <<>>) =>
           gout.dict = Returned(Entry("FOLD", Some(0), Some(90), NoKey))
    /\ (Postflop /\ postflop_buckets = <<>>) =>
           gout.dict = Returned(Entry("CHECK", Some(0), Some(60), NoKey))

\* C22: every provider attempt of the orchestrator ends within the
\* configured timeout, also when the provider never answers, so that
\* get_recommendation waits at most one timeout per available provider
C22_AttemptsEndInTime ==
    att.phase = "waiting" => att.elapsed <= Timeout

Emitted == "send_recommendation" \in Range(cyc.events)
Recorded == "log_decision" \in Range(cyc.events)
RecordingFailed == Emitted /\ "raised" \in Range(cyc.events)
\* C23: the recommendation is sent before the decision is recorded (while
\* the insert is pending it has been sent and nothing is recorded yet); the
\* recording step, failing or not, keeps the events so far, the
\* recommendation, the validator window and the hand state, and leaves the
\* loop running and ready for the next cycle
C23_EmittedBeforeRecorded ==
    [][pc = "emitted" =>
          /\ Emitted /\ ~Recorded /\ cyc.rec # NoRec
          /\ SubSeq(cyc'.events, 1, Len(cyc.events)) = cyc.events
          /\ cyc'.rec = cyc.rec
          /\ state_buffer' = state_buffer
          /\ current_state' = current_state
          /\ hand_number' = hand_number
          /\ app' = "running" /\ pc' = "idle"]_vars
C23_Witness ==
    /\ RecordingFailed /\ cyc.rec # NoRec
    /\ app = "running" /\ pc = "idle" /\ calls < MaxCycles
    /\ cyc.rows_before = Len(db_rows)
    /\ state_buffer # <<>> /\ current_state # <<>>

\* the last cycle's perception step failed: the loop was handed the empty
\* game state
SensingFailed ==
    /\ cyc.validate_called
    /\ SameObservation(LastObs, _empty_game_state)
\* C24: a cycle whose perception step fails gives nothing to the validator
\* and leaves the validator window, the current state and the hand number
\* as they were
C24_SensingFailureIsNoObservation ==
    [][(calls' = calls + 1 /\ SensingFailed') =>
          /\ state_buffer' = state_buffer
          /\ current_state' = current_state
          /\ hand_number' = hand_number]_vars

\* C25: an observation with a malformed field is not dropped for it: one
\* the validator rates as confident is taken over as the current state,
\* with the malformed field at its default
C25_MalformedFieldsDefaulted ==
    (cyc.validate_called /\ vout.validated) =>
        /\ vout.is_confident
        /\ vout.game_state # <<>>
        /\ current_state = vout.game_state

CycleFailed == "raised" \in Range(cyc.events)
\* C26: a cycle in which something raised ends with the loop's error alert
\* and the loop running and idle; no step of a cycle stops the running
\* loop; after a failed cycle the next change is processed
C26_FailureAbortsOnlyCycle ==
    [][/\ app = "running" => app' = "running"
       /\ CycleFailed' =>
             /\ pc' = "idle"
             /\ SubSeq(cyc'.events, Len(cyc'.events) - 1, Len(cyc'.events))
                   = <<"raised", "alert:error">>
       /\ (CycleFailed /\ calls' = calls + 1) =>
             (cyc'.validate_called /\ ~CycleFailed')]_vars
\* C26's case: the lookup of an accepted cycle raised, the loop goes on
C26_Witness ==
    /\ CycleFailed
    /\ cyc.events[Len(cyc.events) - 2] = "gto_lookup"
    /\ app = "running" /\ pc = "idle" /\ calls = 2

Normalized == fn.op = "normalize_hand"
FirstCard == normalize_card(fn.cards[1])
SecondCard == normalize_card(fn.cards[2])
\* C27: for valid cards h1, h2 normalize_hand gives the same for [h1, h2]
\* and [h2, h1]; equal ranks give the rank twice; different ranks give the
\* higher rank, the lower rank and 's' for equal suits, 'o' otherwise
C27_HandClassOfTwoCards ==
    Normalized =>
        /\ fn.out = normalize_hand(<<fn.cards[2], fn.cards[1]>>)
        /\ FirstCard[1] = SecondCard[1] =>
              fn.out = <<FirstCard[1], FirstCard[1]>>
        /\ FirstCard[1] # SecondCard[1] =>
              /\ Len(fn.out) = 3
              /\ {fn.out[1], fn.out[2]} = {FirstCard[1], SecondCard[1]}
              /\ RANK_MAP(fn.out[1]) > RANK_MAP(fn.out[2])
              /\ fn.out[3] = IF FirstCard[2] = SecondCard[2] THEN "s" ELSE "o"
\* C27's case: the lower card given first, in lower case, suits equal
C27_Witness ==
    /\ Normalized
    /\ fn.cards = <<"kd", "Ad">>
    /\ fn.out = <<"A", "K", "s">>

Extracted == fn.op = "_validate_game_state"
Given(f) == fn.data.kind = "mapping" /\ f \in DOMAIN fn.data.confidence
\* C28: in the observation _validate_game_state returns every field
\* confidence is in [0,1]; a confidence the input carries is kept, and
\* exactly the fields whose confidence the input lacks get 0.5
C28_ConfidencesInRangeAndDefaulted ==
    Extracted =>
        /\ \A f \in DOMAIN fn.validated : fn.validated[f] \in 0..100
        /\ \A f \in ConfidenceFields :
              /\ f \in DOMAIN fn.validated
              /\ fn.validated[f] = IF Given(f) THEN fn.data.confidence[f] ELSE 50

BoardChecked == fn.op = "_check_board_consistency"
IsPrefix(p, c) == Len(p) <= Len(c) /\ SubSeq(c, 1, Len(p)) = p
\* C29: the board check gives 1.0 when both boards are empty or the previous
\* board is a prefix of the current one, 0.3 when the current board is at
\* least as long as the previous one and an existing entry differs, and 0.5
\* when the current board is shorter, whatever its entries
C29_BoardCheckScores ==
    BoardChecked =>
        fn.score =
            IF IsPrefix(fn.previous.board, fn.current.board) THEN One
            ELSE IF Len(fn.current.board) >= Len(fn.previous.board) THEN Penalty
            ELSE Half
\* C29's case: a board one card shorter with its first card changed
C29_Witness ==
    /\ BoardChecked
    /\ fn.previous.board = Turn
    /\ fn.current.board = <<"Kh", "Js", "Tc">>
    /\ fn.score = Half

HoleCardsChecked == fn.op = "_check_hole_cards_consistency"
CurrentCards == Range(fn.current.hole_cards)
PreviousCards == Range(fn.previous.hole_cards)
\* C30: the hole-card check gives 0.5 when either set of hole cards is
\* empty, 1.0 when both are non-empty and equal as sets, 0.3 when both are
\* non-empty and differ; an observation whose hand changed is still
\* accepted when its confidences are 1.0 and board and pot are unchanged
C30_HoleCardCheckScores ==
    HoleCardsChecked =>
        /\ fn.score =
              IF CurrentCards = {} \/ PreviousCards = {} THEN Half
              ELSE IF CurrentCards = PreviousCards THEN One
              ELSE Penalty
        /\ (fn.score = Penalty /\ fn.current.confidence = <<Num(100)>>)
              => fn.accepted
\* C30's cases: the same hand in the other order; a changed hand accepted
C30_Witness ==
    /\ HoleCardsChecked
    /\ fn.previous.hole_cards = AK
    /\ fn.current.hole_cards = KK
    /\ fn.score = Penalty /\ fn.accepted

Bucketed == fn.op = "_bucket_spr"
\* the ratio of the amounts, with 100 for a pot of 0, is above k
RatioAbove(k) == IF fn.pot > 0 THEN fn.stack > k * fn.pot ELSE 100 > k
\* C31: the bucket is DEEP for a ratio above 10, MEDIUM for a ratio above 3
\* and at most 10, SHALLOW for a ratio of at most 3; a pot of 0 counts as
\* ratio 100 and is DEEP
C31_SprBuckets ==
    Bucketed =>
        /\ fn.label = "DEEP" <=> RatioAbove(10)
        /\ fn.label = "MEDIUM" <=> (RatioAbove(3) /\ ~RatioAbove(10))
        /\ fn.label = "SHALLOW" <=> ~RatioAbove(3)
        /\ fn.pot <= 0 => fn.label = "DEEP"

Classified == fn.op = "classify_board_texture"
BoardCards == 1..Len(fn.cards)
RankOf(i) == RANK_MAP(Chars(fn.cards[i])[1])
SuitOf(i) == Chars(fn.cards[i])[2]
IsPaired == \E i, j \in BoardCards : i # j /\ RankOf(i) = RankOf(j)
IsWet == \E i \in BoardCards : Cardinality({j \in BoardCards : SuitOf(j) = SuitOf(i)}) >= 3
IsCoordinated ==
    \E i, j, k \in BoardCards :
        /\ RankOf(i) > RankOf(j) /\ RankOf(j) > RankOf(k)
        /\ RankOf(i) - RankOf(j) <= 2 /\ RankOf(j) - RankOf(k) <= 2
\* C32: a board of fewer than 3 cards is DRY; a longer one is PAIRED when a
\* rank occurs twice, else WET when a suit occurs three times, else
\* COORDINATED when three cards are at most two ranks apart, one after the
\* other, else DRY
C32_TextureByPriority ==
    Classified =>
        fn.label =
            IF Len(fn.cards) < 3 THEN "DRY"
            ELSE IF IsPaired THEN "PAIRED"
            ELSE IF IsWet THEN "WET"
            ELSE IF IsCoordinated THEN "COORDINATED"
            ELSE "DRY"
\* C32's case: a board that is paired, flush-prone and straight-prone
C32_Witness ==
    /\ Classified
    /\ fn.cards = <<"Ah", "Kh", "Qh", "9h", "9d">>
    /\ IsPaired /\ IsWet /\ IsCoordinated
    /\ fn.label = "PAIRED"

Checked == cap.op = "check_for_changes"
NewHandFlagged == vout.op = "process" /\ vout.new_hand
\* C34: when process_vision_output flags a new hand the validator window is
\* empty on return, and the next observation given to it meets an empty
\* window: its final confidence is its aggregate confidence and it is
\* accepted exactly when the aggregate reaches the threshold
C34_BoundaryClearsWindow ==
    [][/\ NewHandFlagged' => state_buffer' = <<>>
       /\ (NewHandFlagged /\ calls' = calls + 1) =>
             /\ vout'.n_before = 0
             /\ vout'.confidence = vout'.aggregate
             /\ vout'.is_confident = FGe(vout'.aggregate, threshold)]_vars
\* C34's case: right after a new hand an observation with other hole cards
\* meets an empty window, keeps its aggregate confidence 1.0 and is the
\* next new hand
C34_Witness ==
    /\ NewHandFlagged /\ hand_number = 2 /\ calls = 2
    /\ vout.n_before = 0
    /\ LastObs.hole_cards = KK
    /\ vout.is_confident /\ vout.confidence = One


NotConfident == vout.op = "process" /\ ~vout.is_confident
\* the window before the call, less its oldest entry when it was full
WindowKept(buf) == IF Len(buf) >= buffer_size THEN Tail(buf) ELSE buf
\* C35: a process_vision_output call that returns not-confident (the
\* validator rejected the observation, or GameState could not be built from
\* an accepted one) returns no game state and leaves current_state,
\* hand_number and session_id as they were, the window having gained the
\* observation as its newest entry; a call that returns a game state returns
\* is_confident true with a confidence at or above the threshold
C35_RejectionChangesOnlyWindow ==
    [][(vout'.op = "process" /\ calls' = calls + 1) =>
          /\ ~vout'.is_confident =>
                /\ vout'.game_state = <<>>
                /\ UNCHANGED <<current_state, hand_number, session_id, threshold>>
                /\ state_buffer' = Append(WindowKept(state_buffer), vout'.obs[1])
          /\ vout'.game_state # <<>> =>
                /\ vout'.is_confident
                /\ FGe(vout'.confidence, threshold)]_vars
\* C35's case: an observation the validator accepted, with a confidence
\* entry that is no number, yields no game state while a state is current
C35_Witness ==
    /\ NotConfident /\ vout.validated
    /\ LastObs = [ObsMixed EXCEPT !.arrival = calls]
    /\ vout.game_state = <<>>
    /\ current_state = <<GameState(ObsFlop)>>
    /\ hand_number = 1
    /\ Len(state_buffer) = 2


\* the observation differs from the state cur by one of the changes that
\* start a new hand: a shorter board, a pot below half, other hole cards
BoundaryChange(cur, o) ==
    \/ Len(o.board) < Len(cur.board)
    \/ 2 * o.pot < cur.pot
    \/ /\ o.hole_cards # <<>> /\ cur.hole_cards # <<>>
       /\ Range(o.hole_cards) # Range(cur.hole_cards)
\* the call that just returned had the validator reject an observation that
\* differs from the current state by such a change
BoundaryRejected ==
    /\ vout.op = "process" /\ ~vout.validated
    /\ current_state # <<>>
    /\ BoundaryChange(current_state[1], LastObs)
\* the next call is given the same observation again
SameAgain == Processed /\ vout'.obs[1] = [LastObs EXCEPT !.arrival = calls']
\* C36: when the validator rejected an observation B that differs from the
\* last accepted state by a change that starts a new hand, and the next
\* observation equals B, has hole cards and an aggregate confidence at or
\* above the threshold, that next observation is accepted and flagged as a
\* new hand, and the hand number goes up by one
C36_RepeatedBoundaryAccepted ==
    [][(/\ BoundaryRejected /\ SameAgain
        /\ LastObs.hole_cards # <<>>
        /\ FGe(vout'.aggregate, threshold))
       => (/\ vout'.is_confident /\ vout'.new_hand
           /\ hand_number' = hand_number + 1)]_vars


ValidatedOnWindow == fn.op = "validate"
\* C37: for every observation and every window the consistency score is
\* between 0.3 and 1.0 and the final confidence validate returns is not
\* above the aggregate confidence of the observation
C37_HistoryOnlyLowers ==
    ValidatedOnWindow =>
        /\ FGe(fn.score, Penalty) /\ FGe(One, fn.score)
        /\ FGe(fn.aggregate, fn.confidence)


\* the client library is installed, and no API key is set or building the
\* client failed
Unconfigured(f) == f.lib /\ f.client \in {"unset", "None"}
Constructed == orch # "absent"
\* C38: for a fallback provider whose library is installed but that has no
\* API key, or whose client failed to initialise, is_available() returns
\* false without raising, so constructing LLMOrchestrator succeeds
C38_UnconfiguredIsUnavailable ==
    Constructed =>
        /\ Unconfigured(openai) =>
              (Fallback_is_available(openai) = "False" /\ orch = "ready")
        /\ Unconfigured(gemini) =>
              (Fallback_is_available(gemini) = "False" /\ orch = "ready")


Listed == Range(active_connections)
BroadcastOver == bcast.pc = "idle" /\ bcast.n > 0
\* C39: under every interleaving of the websocket handlers with
\* broadcast_update a connection is removed from active_connections at most
\* once, no removal raises, the list holds no connection that was removed,
\* and a broadcast attempts delivery to every connection that is in the
\* list for its whole duration
C39_ConnectionsStayConsistent ==
    /\ \A w \in WebSockets :
          /\ sockets[w].removed <= 1
          /\ sockets[w].pc # "ValueError"
          /\ w \in Listed => sockets[w].removed = 0
    /\ BroadcastOver => bcast.stayed \subseteq bcast.attempted

=============================================================================
